---- MODULE Spec2Model ----
(***************************************************************************)
(* Model of the nebula-fb graphical shell of AetherOS                      *)
(* (src/forge/nebula-fb/src): the framebuffer presenter (fb.rs), the scene *)
(* stack (scene.rs), the hosting loop (main.rs) and the looping audio      *)
(* playback session (audio.rs).                                            *)
(*                                                                         *)
(* Each component has its own specification over the shared variable list; *)
(* a specification leaves the variables of the other components at their   *)
(* initial values.                                                         *)
(***************************************************************************)
EXTENDS Integers, Sequences, FiniteSets, TLC

VARIABLES
    \* ---- fb.rs: struct Framebuffer ----
    fb_len,        \* Framebuffer.fb_len: byte length of the mapping
    mapped,        \* the mmap'ed device memory behind fb_ptr
    back_buffer,   \* Framebuffer.back_buffer
    prev_buffer,   \* Framebuffer.prev_buffer
    dirty,         \* Framebuffer.dirty
    fb_op,         \* history: the last Framebuffer operation
    fb_writes,     \* history: byte stores into the mapping made by the last operation
    fb_presented,  \* history: present() has been called since open()
    \* ---- scene.rs: struct SceneManager ----
    stack,         \* SceneManager.stack, bottom first; the last element is the top
    sc_cap,        \* saturation bound of the scenes' delivery counters
    sc_pre,        \* history: the stack when the last SceneManager call was entered
    sc_call,       \* history: the last SceneManager call and the transition it applied
    sc_covered,    \* history: each covered scene as it was when it was covered
    \* ---- main.rs: locals of main ----
    pc,            \* position of main in its loop body
    event,         \* the event polled in this frame
    idle_frames,   \* consecutive polls without input
    frame_calls,   \* history: the SceneManager calls made in this frame, in order
    frame_period,  \* the frame_duration the last finished frame slept to (ms)
    noinput_run,   \* history: consecutive polls, up to the last one, that returned None
    frame_hist,    \* history: the stack depth at this frame's poll, the stack after its first call
    \* ---- main.rs: the process and what its locals own ----
    fb_fd,         \* Framebuffer._file: the descriptor of /dev/fb0
    fb_map,        \* the mapping behind Framebuffer.fb_ptr
    fb_unmaps,     \* history: munmap calls made
    fb_unmap_fd,   \* history: the descriptor's state at the last munmap
    fb_misuse,     \* history: the mapping was accessed while not mapped
    tty_attrs,     \* the terminal attributes in force on the tty
    saved_termios, \* InputReader.saved_termios
    \* ---- audio.rs: one looping playback session ----
    stop_flag,        \* PlayControl.stop_flag
    volume,           \* PlayControl.volume (permille)
    fade_flag,        \* PlayControl.fade_flag
    fade_duration_ms, \* PlayControl.fade_duration_ms: the value stored last
    fade_duration_old, \* earlier values of it the playback thread may still load
    track,            \* the decoded track: header validity, actual_len, chunk_size
    apc,              \* position of the playback thread
    offset,           \* play_wav_data: offset
    fade_start,       \* play_wav_data: fade_start (-1 is None)
    cpc,              \* position of the controlling thread (inside fade_out or not)
    now,              \* the monotonic clock, in milliseconds
    a_hist,           \* history of the session, for the claims
    \* ---- audio.rs: one call of play_wav_data on a byte buffer ----
    wav_data,         \* play_wav_data: data, the bytes of the WAV file
    wav_pc,           \* position of the call
    wav_info,         \* what parse_wav_header returned to the call
    wav_dev,          \* the PCM device as the call has used it
    wav_ret,          \* what the call returned
    \* ---- input.rs: struct InputReader ----
    screen_width,     \* InputReader.screen_width
    screen_height,    \* InputReader.screen_height
    evdev_fds,        \* InputReader.evdev_fds: how many pointer devices were opened
    mouse_x,          \* InputReader.mouse_x
    mouse_y,          \* InputReader.mouse_y
    mouse_buttons,    \* InputReader.mouse_buttons
    in_event,         \* what the last poll() returned
    in_hist,          \* history: what the last poll() was given
    tty_pending,      \* the bytes typed on the tty and not read yet
    \* ---- audio.rs: struct AudioPlayer and the playback units it spawns ----
    available,        \* AudioPlayer.available
    boot_wav,         \* BOOT_WAV, the embedded asset
    post_file,        \* the content of /usr/share/sounds/post.wav on storage
    units,            \* the spawned playback threads, in spawning order
    pl_hist,          \* history of the player, for the claims
    \* ---- audio.rs: one playback unit's use of the PCM device ----
    pcm_info,         \* play_wav_data: info, and the length of pcm_data
    pcm_looping,      \* the unit is the music loop (TRUE) or the boot chime
    pcm_pc,           \* position of the unit
    pcm_plays,        \* calls of play_wav_data the unit has made
    pcm_offset,       \* play_wav_data: offset
    pcm_ops,          \* history: the device operations of the current call, in order
    pcm_params,       \* history: the record handed to the hardware-parameters ioctl
    pcm_hist,         \* history of the unit, for the claims
    \* ---- renderer.rs: struct Renderer, and ScreenInfo of fb.rs ----
    fb_info,          \* Framebuffer.info: width, height, stride
    pixmap,           \* Renderer.pixmap: its RGBA bytes, row after row
    rend_copied,      \* history: the back buffer was filled from the current pixmap
    \* ---- scenes/*.rs under main.rs: the shell's own scenes ----
    sh_stack,         \* SceneManager.stack, holding the shell's scenes
    sh_pc,            \* position of main in its loop body
    sh_setup_file,    \* /tmp/aether_setup.json exists
    sh_call           \* history: the last call on a scene and what it returned

fbVars == <<fb_len, mapped, back_buffer, prev_buffer, dirty, fb_op, fb_writes, fb_presented>>

sceneVars == <<stack, sc_cap, sc_pre, sc_call, sc_covered>>

mainVars == <<pc, event, idle_frames, frame_calls, frame_period, noinput_run, frame_hist>>

procVars == <<fb_fd, fb_map, fb_unmaps, fb_unmap_fd, fb_misuse, tty_attrs, saved_termios>>

audioVars == <<stop_flag, volume, fade_flag, fade_duration_ms, fade_duration_old,
               track, apc, offset, fade_start, cpc, now, a_hist>>

wavVars == <<wav_data, wav_pc, wav_info, wav_dev, wav_ret>>

inputVars == <<screen_width, screen_height, evdev_fds, mouse_x, mouse_y, mouse_buttons,
               in_event, in_hist, tty_pending>>

playerVars == <<available, boot_wav, post_file, units, pl_hist>>

pcmVars == <<pcm_info, pcm_looping, pcm_pc, pcm_plays, pcm_offset, pcm_ops, pcm_params,
             pcm_hist>>

rendVars == <<fb_info, pixmap, rend_copied>>

shellVars == <<sh_stack, sh_pc, sh_setup_file, sh_call>>

vars == <<fbVars, sceneVars, mainVars, procVars, audioVars, wavVars, inputVars, playerVars,
          pcmVars, rendVars, shellVars>>

\* What each component's specification leaves alone.
notFb == <<sceneVars, mainVars, procVars, audioVars, wavVars, inputVars, playerVars,
    pcmVars, rendVars, shellVars>>
notScene == <<fbVars, mainVars, procVars, audioVars, wavVars, inputVars, playerVars,
    pcmVars, rendVars, shellVars>>
notMain == <<fbVars, audioVars, wavVars, inputVars, playerVars,
    pcmVars, rendVars, shellVars>>
notAudio == <<fbVars, sceneVars, mainVars, procVars, wavVars, inputVars, playerVars,
    pcmVars, rendVars, shellVars>>
notWav == <<fbVars, sceneVars, mainVars, procVars, audioVars, inputVars, playerVars,
    pcmVars, rendVars, shellVars>>
notPlayer == <<fbVars, sceneVars, mainVars, procVars, audioVars, wavVars, inputVars,
    pcmVars, rendVars, shellVars>>
notPcm == <<fbVars, sceneVars, mainVars, procVars, audioVars, wavVars, inputVars, playerVars,
    rendVars, shellVars>>
notRend == <<sceneVars, mainVars, procVars, audioVars, wavVars, inputVars, playerVars,
    pcmVars, shellVars>>
notShell == <<fbVars, sceneVars, mainVars, procVars, audioVars, wavVars, inputVars, playerVars,
    pcmVars, rendVars>>
notInput == <<fbVars, sceneVars, mainVars, procVars, audioVars, wavVars, playerVars,
    pcmVars, rendVars, shellVars>>

Min(a, b) == IF a < b THEN a ELSE b

(***************************************************************************)
(* Framebuffer presenter (fb.rs)                                           *)
(***************************************************************************)

\* Largest mapping length (bytes) the hardware geometry may give.
MaxFbLen == 8

\* Sample of u8 values: 0 (vec![0u8; ..]) and 0xFF (vec![0xFFu8; ..]).
ByteVals == {0, 255}

\* A byte buffer of length n, indexed from 0 as a Rust slice.
BufOf(n, v) == [i \in 0..(n - 1) |-> v]

\* Framebuffer::open: fb_len = line_length * yres (far below the u32 range
\* at these bounds), rejected when zero;
\* back buffer zeroed, previous frame 0xFF, dirty set.  The mapped device
\* memory holds whatever the device showed before.
FbOpenWith(line_length, yres, shown) ==
    /\ fb_len = line_length * yres
    /\ fb_len > 0
    /\ mapped = BufOf(fb_len, shown)
    /\ back_buffer = BufOf(fb_len, 0)
    /\ prev_buffer = BufOf(fb_len, 255)
    /\ dirty = TRUE
    /\ fb_op = "open"
    /\ fb_writes = 0
    /\ fb_presented = FALSE

FbInit ==
    \E line_length \in 1..MaxFbLen, yres \in 1..MaxFbLen, shown \in ByteVals :
        /\ line_length * yres <= MaxFbLen
        /\ FbOpenWith(line_length, yres, shown)

\* The framebuffer as the other specifications hold it: opened, one pixel,
\* its content not followed.
FbIdle == FbOpenWith(4, 1, 0)

\* A store through back_buffer_mut(): the caller may write any byte anywhere.
back_buffer_write(i, v) ==
    /\ back_buffer' = [back_buffer EXCEPT ![i] = v]
    /\ fb_op' = "write"
    /\ fb_writes' = 0
    /\ UNCHANGED <<fb_len, mapped, prev_buffer, dirty, fb_presented>>

\* Framebuffer::mark_dirty
mark_dirty ==
    /\ dirty' = TRUE
    /\ fb_op' = "mark_dirty"
    /\ fb_writes' = 0
    /\ UNCHANGED <<fb_len, mapped, back_buffer, prev_buffer, fb_presented>>

is_dirty_always == TRUE

is_dirty_flag_only == dirty

\* Framebuffer::is_dirty
is_dirty == dirty \/ back_buffer # prev_buffer

\* Number of whole 4-byte chunks of a slice of length n (chunks_exact(4)).
chunks_exact4(n) == n \div 4

bgra_plain_copy(k) == k

\* The source byte of destination byte k of a pixel: dst_px[0] = src_px[2],
\* dst_px[1] = src_px[1], dst_px[2] = src_px[0], dst_px[3] = src_px[3].
bgra_src_index(k) ==
    CASE k = 0 -> 2
      [] k = 1 -> 1
      [] k = 2 -> 0
      [] k = 3 -> 3

\* The blit loop: back_buffer.chunks_exact(4).zip(dst.chunks_exact_mut(4));
\* bytes past the last whole chunk are not stored.
blit(dst, src) ==
    LET n == Min(chunks_exact4(Cardinality(DOMAIN src)), chunks_exact4(Cardinality(DOMAIN dst)))
    IN  [i \in DOMAIN dst |->
            IF i \div 4 < n
            THEN src[4 * (i \div 4) + bgra_src_index(i % 4)]
            ELSE dst[i]]

\* Framebuffer::present
present ==
    /\ IF ~is_dirty
       THEN /\ fb_op' = "present_skip"
            /\ fb_writes' = 0
            /\ UNCHANGED <<mapped, prev_buffer, dirty>>
       ELSE /\ mapped' = blit(mapped, back_buffer)
            /\ prev_buffer' = back_buffer
            /\ dirty' = FALSE
            /\ fb_op' = "present_blit"
            /\ fb_writes' = 4 * chunks_exact4(fb_len)
    /\ fb_presented' = TRUE
    /\ UNCHANGED <<fb_len, back_buffer>>


(***************************************************************************)
(* Renderer and the frame handed to the presenter (renderer.rs, main.rs)   *)
(***************************************************************************)

\* Screen sizes in pixels, at most, and the padding bytes a row of device
\* memory may have beyond its 4 * width bytes of pixels.
MaxPixWidth == 2
MaxPixHeight == 2
StridePads == {0, 4}

\* Frames a scene may paint, told apart by number.
MaxPaintings == 2

\* Byte c (0..3: R, G, B, A) of pixel (x, y) of painting k: every byte of a
\* painting differs from every other.
painted_byte(k, width, x, y, c) == 96 * (k - 1) + 16 * (y * width + x) + 4 * c + 1

\* Pixmap::new(width, height): width * height * 4 bytes, transparent black.
PixmapNew(width, height) == BufOf(width * height * 4, 0)

\* The pixmap after scene_manager.draw painted frame k: RGBA quadruplets,
\* row-major, rows of 4 * width bytes.
PixmapPainted(k, width, height) ==
    [i \in 0..(width * height * 4 - 1) |->
        painted_byte(k, width, (i \div 4) % width, (i \div 4) \div width, i % 4)]

\* main: Framebuffer::open, then Renderer::new(framebuffer.width(),
\* framebuffer.height()).
RendNew(width, height, stride) ==
    /\ FbOpenWith(stride, height, 0)
    /\ fb_info = [width |-> width, height |-> height, stride |-> stride]
    /\ pixmap = PixmapNew(width, height)
    /\ rend_copied = FALSE

RendInit ==
    \E width \in 1..MaxPixWidth, height \in 1..MaxPixHeight, pad \in StridePads :
        RendNew(width, height, 4 * width + pad)

\* The renderer as the other specifications hold it (their framebuffer is
\* pinned or explored by themselves).
RendIdle ==
    /\ fb_info = [width |-> 1, height |-> 1, stride |-> 4]
    /\ pixmap = PixmapNew(1, 1)
    /\ rend_copied = FALSE

\* scene_manager.draw(&mut render, ..) and draw_cursor: the pixmap holds
\* the frame.
scene_draw(k) ==
    /\ pixmap' = PixmapPainted(k, fb_info.width, fb_info.height)
    /\ rend_copied' = FALSE
    /\ UNCHANGED <<fb_info, fbVars>>

\* let len = dst.len().min(src.len()); dst[..len].copy_from_slice(&src[..len]);
copy_to(dst, src) ==
    LET len == Min(Cardinality(DOMAIN dst), Cardinality(DOMAIN src))
    IN  [i \in DOMAIN dst |-> IF i < len THEN src[i] ELSE dst[i]]

\* render.copy_to(framebuffer.back_buffer_mut());
Renderer_copy_to ==
    /\ back_buffer' = copy_to(back_buffer, pixmap)
    /\ fb_op' = "write"
    /\ fb_writes' = 0
    /\ rend_copied' = TRUE
    /\ UNCHANGED <<fb_len, mapped, prev_buffer, dirty, fb_presented, fb_info, pixmap>>

RendNext ==
    \/ \E k \in 1..MaxPaintings : scene_draw(k) /\ UNCHANGED notRend
    \/ Renderer_copy_to /\ UNCHANGED notRend
    \/ present /\ UNCHANGED rendVars /\ UNCHANGED notRend

(***************************************************************************)
(* Scene stack (scene.rs)                                                  *)
(***************************************************************************)

\* Deepest stack explored: a Push is taken only below this depth.
MaxDepth == 3

\* Scene objects are told apart by an identity in 1..MaxSceneId.
MaxSceneId == 2

\* The scenes count the calls delivered to them up to this number.
MaxSeen == 2

\* A scene is opaque to the manager: its identity and how many update or
\* handle_input calls it has received (saturating at sc_cap).
NewScene(k) == [id |-> k, seen |-> 0]

NoScene == [id |-> 0, seen |-> 0]

\* enum Transition
TrNone == [kind |-> "None", scene |-> NoScene]
TrPop == [kind |-> "Pop", scene |-> NoScene]
TrPush(sc) == [kind |-> "Push", scene |-> sc]
TrReplace(sc) == [kind |-> "Replace", scene |-> sc]
NotCalled == [kind |-> "NotCalled", scene |-> NoScene]

\* What a scene's update or handle_input may return.
TransitionsAt(depth) ==
    {TrNone, TrPop}
    \cup {TrReplace(NewScene(k)) : k \in 1..MaxSceneId}
    \cup (IF depth < MaxDepth THEN {TrPush(NewScene(k)) : k \in 1..MaxSceneId} ELSE {})

\* Scene::update / Scene::handle_input on one scene: the scene changes itself.
scene_step(sc) == [sc EXCEPT !.seen = Min(@ + 1, sc_cap)]

\* Vec::push and Vec::pop (pop of an empty vector does nothing).
vec_push(s, x) == Append(s, x)
vec_pop(s) == IF Len(s) = 0 THEN s ELSE SubSeq(s, 1, Len(s) - 1)

apply_replace_keeps_old(s, t) ==
    CASE t.kind = "None" -> s
      [] t.kind = "Push" -> vec_push(s, t.scene)
      [] t.kind = "Replace" -> vec_push(s, t.scene)
      [] t.kind = "Pop" -> vec_pop(s)

\* SceneManager::apply
apply(s, t) ==
    CASE t.kind = "None" -> s
      [] t.kind = "Push" -> vec_push(s, t.scene)
      [] t.kind = "Replace" -> vec_push(vec_pop(s), t.scene)
      [] t.kind = "Pop" -> vec_pop(s)

deliver_to_bottom(s) == [s EXCEPT ![1] = scene_step(@)]

\* self.stack.last_mut() followed by the call on that scene.
deliver_to_top(s) == [s EXCEPT ![Len(s)] = scene_step(@)]

\* History kept beside apply: the scenes under the top as they were covered.
covered_after(cov, delivered, t) ==
    CASE t.kind = "Push" -> Append(cov, delivered[Len(delivered)])
      [] t.kind = "Pop" -> vec_pop(cov)
      [] OTHER -> cov

\* History kept beside apply: the scene a Pop uncovers, as it was when covered.
resumed_by(cov, t) ==
    IF t.kind = "Pop" /\ Len(cov) > 0 THEN cov[Len(cov)] ELSE NoScene

\* The body shared by SceneManager::update and SceneManager::handle_input:
\* nothing on an empty stack, else the call on the top scene and apply.
manager_call(op) ==
    /\ sc_pre' = stack
    /\ IF Len(stack) = 0
       THEN /\ sc_call' = [op |-> op, tr |-> NotCalled, resumed |-> NoScene]
            /\ UNCHANGED <<stack, sc_covered>>
       ELSE \E t \in TransitionsAt(Len(stack)) :
                /\ stack' = apply(deliver_to_top(stack), t)
                /\ sc_covered' = covered_after(sc_covered, deliver_to_top(stack), t)
                /\ sc_call' = [op |-> op, tr |-> t, resumed |-> resumed_by(sc_covered, t)]
    /\ UNCHANGED sc_cap

SceneManager_update_applies_twice ==
    /\ sc_pre' = stack
    /\ IF Len(stack) = 0
       THEN /\ sc_call' = [op |-> "update", tr |-> NotCalled, resumed |-> NoScene]
            /\ UNCHANGED <<stack, sc_covered>>
       ELSE \E t \in TransitionsAt(Len(stack)) :
                /\ stack' = apply(apply(deliver_to_top(stack), t), t)
                /\ sc_covered' = covered_after(sc_covered, deliver_to_top(stack), t)
                /\ sc_call' = [op |-> "update", tr |-> t, resumed |-> resumed_by(sc_covered, t)]
    /\ UNCHANGED sc_cap

\* SceneManager::update
SceneManager_update == manager_call("update")

\* SceneManager::handle_input
SceneManager_handle_input == manager_call("handle_input")

\* SceneManager::is_empty
is_empty == Len(stack) = 0

\* SceneManager::new(initial)
SceneNew(k, cap) ==
    /\ stack = <<NewScene(k)>>
    /\ sc_cap = cap
    /\ sc_pre = <<>>
    /\ sc_call = [op |-> "new", tr |-> NotCalled, resumed |-> NoScene]
    /\ sc_covered = <<>>

SceneInit == \E k \in 1..MaxSceneId : SceneNew(k, MaxSeen)

\* The scene manager as the other specifications hold it.
SceneIdle == SceneNew(1, 0)

SceneNext ==
    \/ SceneManager_update /\ UNCHANGED notScene
    \/ SceneManager_handle_input /\ UNCHANGED notScene


(***************************************************************************)
(* Looping playback session (audio.rs)                                     *)
(***************************************************************************)

\* AtomicU32::new(1000): full volume, permille.
VOLUME_FULL == 1000

\* AtomicU32::new(3000): the fade duration a session is created with.
DEFAULT_FADE_MS == 3000

\* Longest PCM payload and largest chunk size explored (bytes, scaled down).
MaxPcmLen == 2
MaxChunk == 2

\* The clock runs up to MaxTime ms; fade_out is called with 0..MaxFadeMs ms,
\* at most MaxFadeCalls times.
MaxTime == 2
MaxFadeMs == 2
MaxFadeCalls == 1

\* No Instant (Option::None of fade_start, or nothing recorded yet).
NoTime == -1

\* History of a session that has just been created.
HistStart ==
    [ stop_called |-> FALSE,      \* stop() has stored the flag
      apc_at_stop |-> "none",      \* where the playback thread was at that store
      writes_after_stop |-> 0,     \* chunk writes started after the store (up to 2)
      iters_after_stop |-> 0,      \* loop iterations started after the store (up to 1)
      fade_calls |-> 0,            \* fade_out calls completed
      fade_seen_at |-> NoTime,     \* when the thread first observed fade_flag set
      chk_time |-> NoTime,         \* when the last fade check took its elapsed time
      chk_dur |-> 0,               \* the duration that check loaded
      fade_args |-> {},            \* the arguments of the fade_out calls made
      writes |-> 0,                \* chunk writes started in the session (up to 2)
      result |-> "running" ]       \* how the thread ended

\* play_post_music after it returned Some(handle): the four atomics are
\* fresh and the spawned thread is about to read the file.
SessionNew(hdr_ok, actual_len, chunk_size) ==
    /\ stop_flag = FALSE
    /\ volume = VOLUME_FULL
    /\ fade_flag = FALSE
    /\ fade_duration_ms = DEFAULT_FADE_MS
    /\ fade_duration_old = <<>>
    /\ track = [hdr_ok |-> hdr_ok, actual_len |-> actual_len, chunk_size |-> chunk_size]
    /\ apc = "read_file"
    /\ offset = 0
    /\ fade_start = NoTime
    /\ cpc = "idle"
    /\ now = 0
    /\ a_hist = HistStart

AudioInit ==
    \E hdr_ok \in BOOLEAN, actual_len \in 0..MaxPcmLen, chunk_size \in 1..MaxChunk :
        SessionNew(hdr_ok, actual_len, chunk_size)

\* The session as the other specifications hold it.
AudioIdle == SessionNew(TRUE, 0, 1)

Bump(n, cap) == Min(n + 1, cap)

\* ---- the controlling thread: PlayHandle ----

\* PlayHandle::fade_out, first store: fade_duration_ms.store(duration_ms,
\* Ordering::Relaxed).  The value it replaces stays loadable by the other
\* thread: nothing orders this store with the store of the flag that follows.
fade_out_store_duration(d) ==
    /\ cpc = "idle"
    /\ a_hist.fade_calls < MaxFadeCalls
    /\ fade_duration_ms' = d
    /\ fade_duration_old' = Append(fade_duration_old, fade_duration_ms)
    /\ cpc' = "fade_out"
    /\ a_hist' = [a_hist EXCEPT !.fade_args = @ \cup {d}]
    /\ UNCHANGED <<stop_flag, volume, fade_flag, track, apc, offset, fade_start,
                   now>>

\* PlayHandle::fade_out, second store: fade_flag.store(true)
fade_out_store_flag ==
    /\ cpc = "fade_out"
    /\ fade_flag' = TRUE
    /\ cpc' = "idle"
    /\ a_hist' = [a_hist EXCEPT !.fade_calls = @ + 1]
    /\ UNCHANGED <<stop_flag, volume, fade_duration_ms, fade_duration_old, track, apc, offset,
                   fade_start, now>>

\* PlayHandle::stop: stop_flag.store(true)
stop ==
    /\ cpc = "idle"
    /\ ~a_hist.stop_called
    /\ stop_flag' = TRUE
    /\ a_hist' = [a_hist EXCEPT !.stop_called = TRUE, !.apc_at_stop = apc]
    /\ UNCHANGED <<volume, fade_flag, fade_duration_ms, fade_duration_old, track, apc, offset,
                   fade_start, cpc, now>>

\* ---- the playback thread ----

\* The thread ends: its closure returns or its loop breaks.
thread_ends(how) ==
    /\ apc' = "done"
    /\ a_hist' = [a_hist EXCEPT !.result = how]

\* std::fs::read("/usr/share/sounds/post.wav"), once, before the loop.
read_file ==
    /\ apc = "read_file"
    /\ \/ apc' = "loop_top" /\ UNCHANGED a_hist
       \/ thread_ends("error")
    /\ UNCHANGED <<stop_flag, volume, fade_flag, fade_duration_ms, fade_duration_old, track, offset,
                   fade_start, cpc, now>>

loop_top_never_checks == FALSE

\* The load of stop_flag at the top of the loop.
loop_top_stop_load == stop_flag

\* loop { if stop_flag.load() { break; } match play_wav_data(..) .. }
loop_top ==
    /\ apc = "loop_top"
    /\ IF loop_top_stop_load
       THEN thread_ends("stopped")
       ELSE /\ apc' = "play"
            /\ a_hist' = [a_hist EXCEPT !.iters_after_stop =
                              IF a_hist.stop_called THEN 1 ELSE @]
    /\ UNCHANGED <<stop_flag, volume, fade_flag, fade_duration_ms, fade_duration_old, track, offset,
                   fade_start, cpc, now>>

\* play_wav_data up to its write loop: parse_wav_header, open of the PCM
\* device, configure_alsa; offset = 0 and fade_start = None.
play_enter ==
    /\ apc = "play"
    /\ \/ /\ ~track.hdr_ok
          /\ thread_ends("error")
          /\ UNCHANGED <<offset, fade_start>>
       \/ /\ track.hdr_ok
          /\ thread_ends("error")
          /\ UNCHANGED <<offset, fade_start>>
       \/ /\ track.hdr_ok
          /\ apc' = "chunk_check"
          /\ offset' = 0
          /\ fade_start' = NoTime
          /\ UNCHANGED a_hist
    /\ UNCHANGED <<stop_flag, volume, fade_flag, fade_duration_ms, fade_duration_old, track,
                   cpc, now>>

chunk_never_checks == FALSE

\* The load of stop_flag before a chunk.
chunk_stop_load == stop_flag

\* while offset < actual_len { if stop_flag.load() { return Ok(true); } ..
chunk_check ==
    /\ apc = "chunk_check"
    /\ IF offset >= track.actual_len
       THEN apc' = "loop_top" /\ UNCHANGED a_hist
       ELSE IF chunk_stop_load
            THEN thread_ends("stopped")
            ELSE apc' = "fade_check" /\ UNCHANGED a_hist
    /\ UNCHANGED <<stop_flag, volume, fade_flag, fade_duration_ms, fade_duration_old, track, offset,
                   fade_start, cpc, now>>

\* A chunk write begins: let end = (offset + chunk_size).min(actual_len).
write_begins(h) ==
    [h EXCEPT !.writes = Bump(@, 2),
              !.writes_after_stop = IF h.stop_called THEN Bump(@, 2) ELSE @]

\* if fade_flag.load() { if fade_start.is_none() { fade_start = now } ..
fade_check ==
    /\ apc = "fade_check"
    /\ IF fade_flag
       THEN /\ fade_start' = (IF fade_start = NoTime THEN now ELSE fade_start)
            /\ apc' = "fade_apply"
            /\ a_hist' = [a_hist EXCEPT !.fade_seen_at = IF @ = NoTime THEN now ELSE @]
       ELSE /\ apc' = "write"
            /\ a_hist' = write_begins(a_hist)
            /\ UNCHANGED fade_start
    /\ UNCHANGED <<stop_flag, volume, fade_flag, fade_duration_ms, fade_duration_old, track, offset,
                   cpc, now>>

\* 1000u32.saturating_sub(elapsed_ms * 1000 / duration)
fade_volume(elapsed_ms, duration) ==
    LET down == (elapsed_ms * 1000) \div duration
    IN  IF down > VOLUME_FULL THEN 0 ELSE VOLUME_FULL - down

\* What fade_duration_ms.load(Ordering::Relaxed) may return in the playback
\* thread, oldest first: the value stored last, or an earlier one that no
\* load of this thread has yet been replaced past.  The loads and stores of
\* one atomic are totally ordered, so fade_flag and stop_flag are single
\* words; Relaxed orders nothing between fade_flag and fade_duration_ms.
fade_duration_loadable == fade_duration_old \o <<fade_duration_ms>>

\* elapsed_ms = fade_start.elapsed(); duration = fade_duration_ms.load();
\* if elapsed_ms >= duration { return Ok(true); } volume.store(vol)
fade_apply ==
    /\ apc = "fade_apply"
    /\ \E i \in 1..Len(fade_duration_loadable) :
        LET elapsed_ms == now - fade_start
            duration == fade_duration_loadable[i]
        IN  /\ fade_duration_old' = SubSeq(fade_duration_old, i, Len(fade_duration_old))
            /\ IF elapsed_ms >= duration
               THEN /\ apc' = "done"
                    /\ a_hist' = [a_hist EXCEPT !.result = "stopped",
                                                !.chk_time = now, !.chk_dur = duration]
                    /\ UNCHANGED volume
               ELSE /\ volume' = fade_volume(elapsed_ms, duration)
                    /\ apc' = "write"
                    /\ a_hist' = [write_begins(a_hist) EXCEPT !.chk_time = now,
                                                              !.chk_dur = duration]
    /\ UNCHANGED <<stop_flag, fade_flag, fade_duration_ms, track, offset, fade_start,
                   cpc, now>>

\* write_all_alsa returns: Ok advances offset to end, Err aborts the session.
write_returns ==
    /\ apc = "write"
    /\ \/ /\ offset' = Min(offset + track.chunk_size, track.actual_len)
          /\ apc' = "chunk_check"
          /\ UNCHANGED a_hist
       \/ /\ thread_ends("error")
          /\ UNCHANGED offset
    /\ UNCHANGED <<stop_flag, volume, fade_flag, fade_duration_ms, fade_duration_old, track,
                   fade_start, cpc, now>>

\* Time passes (a PCM write blocks for as long as the device takes).
tick ==
    /\ now < MaxTime
    /\ now' = now + 1
    /\ UNCHANGED <<stop_flag, volume, fade_flag, fade_duration_ms, fade_duration_old, track, apc,
                   offset, fade_start, cpc, a_hist>>

AudioNext ==
    \/ \E d \in 0..MaxFadeMs : fade_out_store_duration(d) /\ UNCHANGED notAudio
    \/ fade_out_store_flag /\ UNCHANGED notAudio
    \/ stop /\ UNCHANGED notAudio
    \/ read_file /\ UNCHANGED notAudio
    \/ loop_top /\ UNCHANGED notAudio
    \/ play_enter /\ UNCHANGED notAudio
    \/ chunk_check /\ UNCHANGED notAudio
    \/ fade_check /\ UNCHANGED notAudio
    \/ fade_apply /\ UNCHANGED notAudio
    \/ write_returns /\ UNCHANGED notAudio
    \/ tick /\ UNCHANGED notAudio


(***************************************************************************)
(* WAV decoding and the head of a playback (audio.rs)                      *)
(***************************************************************************)

\* Rust slices are indexed from 0, sequences from 1.
At(data, i) == data[i + 1]

\* &data[a..b]
Slice(data, a, b) == SubSeq(data, a + 1, b)

\* u16::from_le_bytes, u32::from_le_bytes.  The buffers explored keep the
\* top byte of every 32-bit field below 0x80.
u16_from_le_bytes(b0, b1) == b0 + 256 * b1
u32_from_le_bytes(b0, b1, b2, b3) == b0 + 256 * b1 + 65536 * b2 + 16777216 * b3

\* b"RIFF", b"WAVE", b"fmt ", b"data"
RIFF == <<82, 73, 70, 70>>
WAVE == <<87, 65, 86, 69>>
FMT_ == <<102, 109, 116, 32>>
DATA == <<100, 97, 116, 97>>

\* if data.len() < 44 { return None; }
MIN_WAV_LEN == 44

\* Option<WavInfo>::None, and a slice index out of range (the call panics).
WavNone == [kind |-> "None"]
WavPanic == [kind |-> "panic"]

WavSome(channels, sample_rate, bits_per_sample, data_offset, data_len) ==
    [kind |-> "Some", channels |-> channels, sample_rate |-> sample_rate,
     bits_per_sample |-> bits_per_sample, data_offset |-> data_offset,
     data_len |-> data_len]

\* The locals of the chunk walk before its first iteration.
WalkStart == [fmt_channels |-> 0, fmt_rate |-> 0, fmt_bits |-> 0,
              data_offset |-> 0, data_len |-> 0, panicked |-> FALSE]

\* pos += 8 + chunk_size; if pos % 2 != 0 { pos += 1; }
next_chunk_pos(pos, chunk_size) ==
    LET p == pos + 8 + chunk_size IN IF p % 2 # 0 THEN p + 1 ELSE p

\* while pos + 8 <= data.len() { .. }: the locals when the loop is left.
RECURSIVE chunk_walk(_, _, _)
chunk_walk(data, pos, w) ==
    IF pos + 8 > Len(data)
    THEN w
    ELSE LET chunk_id == Slice(data, pos, pos + 4)
             chunk_size == u32_from_le_bytes(At(data, pos + 4), At(data, pos + 5),
                                             At(data, pos + 6), At(data, pos + 7))
         IN  IF chunk_id = FMT_ /\ chunk_size >= 16
             THEN IF pos + 23 >= Len(data)
                  THEN [w EXCEPT !.panicked = TRUE]
                  ELSE chunk_walk(data, next_chunk_pos(pos, chunk_size),
                           [w EXCEPT
                              !.fmt_channels = u16_from_le_bytes(At(data, pos + 10),
                                                                 At(data, pos + 11)),
                              !.fmt_rate = u32_from_le_bytes(At(data, pos + 12),
                                               At(data, pos + 13), At(data, pos + 14),
                                               At(data, pos + 15)),
                              !.fmt_bits = u16_from_le_bytes(At(data, pos + 22),
                                                             At(data, pos + 23))])
             ELSE IF chunk_id = DATA
                  THEN [w EXCEPT !.data_offset = pos + 8, !.data_len = chunk_size]
                  ELSE chunk_walk(data, next_chunk_pos(pos, chunk_size), w)

magic_never_checked(data) == TRUE

\* &data[0..4] == b"RIFF" && &data[8..12] == b"WAVE"
magic_ok(data) == Slice(data, 0, 4) = RIFF /\ Slice(data, 8, 12) = WAVE

fmt_fields_shifted(w) ==
    WavSome(w.fmt_bits, w.fmt_rate, w.fmt_channels, w.data_offset, w.data_len)

\* Some(WavInfo { .. }) from the locals of the walk.
wav_info_of(w) ==
    WavSome(w.fmt_channels, w.fmt_rate, w.fmt_bits, w.data_offset, w.data_len)

parse_wav_header(data) ==
    IF Len(data) < MIN_WAV_LEN
    THEN WavNone
    ELSE IF ~magic_ok(data)
    THEN WavNone
    ELSE LET w == chunk_walk(data, 12, WalkStart)
         IN  IF w.panicked THEN WavPanic
             ELSE IF w.data_offset = 0 \/ w.fmt_rate = 0 THEN WavNone
             ELSE wav_info_of(w)

\* ---- the buffers explored ----

\* Payload bytes after the header, at most.
MaxWavPayload == 1

le16(v) == <<v % 256, (v \div 256) % 256>>
le32(v) == <<v % 256, (v \div 256) % 256, (v \div 65536) % 256, (v \div 16777216) % 256>>

\* The canonical 44-byte header: RIFF size WAVE, a 16-byte PCM `fmt ` chunk
\* at offset 12, the `data` chunk header at offset 36.
canonical_header(channels, rate, bits, data_len) ==
    RIFF \o le32(36 + data_len) \o WAVE
      \o FMT_ \o le32(16) \o le16(1) \o le16(channels) \o le32(rate)
      \o le32(rate * channels * (bits \div 8)) \o le16(channels * (bits \div 8))
      \o le16(bits)
      \o DATA \o le32(data_len)

payload(n) == [i \in 1..n |-> i]

\* The buffer cut to its first `keep` bytes, with byte `at` replaced by
\* `by` (at = -1: no byte replaced).
damaged(data, keep, at, by) ==
    LET cut == SubSeq(data, 1, Min(keep, Len(data)))
    IN  [i \in 1..Len(cut) |-> IF i = at + 1 THEN by ELSE cut[i]]

WavChannels == {1, 2}
WavRates == {0, 8000, 44100}
WavBits == {8, 16}
\* Bytes of the two magics, of the chunk ids and of the fmt chunk size.
DamageAt == {-1, 0, 3, 8, 11, 12, 16, 36}
DamageBy == {0, 88}

\* ---- one call of play_wav_data(data, false, None) ----

WavCall(data) ==
    /\ wav_data = data
    /\ wav_pc = "parse"
    /\ wav_info = [kind |-> "unparsed"]
    /\ wav_dev = "unopened"
    /\ wav_ret = "running"

\* A file whose fmt chunk comes second, after a 16-byte JUNK chunk: the RIFF
\* header, the JUNK chunk, then the fmt and data chunks of the canonical
\* header; 68 bytes.
JUNK == <<74, 85, 78, 75>>
junk_first(channels, rate, bits, data_len) ==
    LET h == canonical_header(channels, rate, bits, data_len)
    IN  SubSeq(h, 1, 12) \o JUNK \o le32(16) \o [i \in 1..16 |-> 0]
          \o SubSeq(h, 13, MIN_WAV_LEN)

WavInit ==
    \E channels \in WavChannels, rate \in WavRates, bits \in WavBits,
       data_len \in 0..MaxWavPayload, extra \in 0..MaxWavPayload,
       at \in DamageAt, by \in DamageBy :
      \/ \E keep \in 0..(MIN_WAV_LEN + extra) :
           WavCall(damaged(canonical_header(channels, rate, bits, data_len)
                             \o payload(extra), keep, at, by))
      \/ \E keep \in MIN_WAV_LEN..(MIN_WAV_LEN + 24 + extra) :
           at = -1 /\ by = 0 /\
           WavCall(damaged(junk_first(channels, rate, bits, data_len)
                             \o payload(extra), keep, at, by))

WavIdle == WavCall(<<>>)

\* let info = parse_wav_header(data).ok_or("Invalid WAV header")?;
play_parse ==
    /\ wav_pc = "parse"
    /\ wav_info' = parse_wav_header(wav_data)
    /\ IF wav_info'.kind = "None"
       THEN wav_pc' = "returned" /\ wav_ret' = "Err(Invalid WAV header)"
       ELSE IF wav_info'.kind = "panic"
            THEN wav_pc' = "panicked" /\ wav_ret' = "panic"
            ELSE wav_pc' = "open" /\ UNCHANGED wav_ret
    /\ UNCHANGED <<wav_data, wav_dev>>

\* OpenOptions::new().write(true).open("/dev/snd/pcmC0D0p").map_err(..)?
play_open ==
    /\ wav_pc = "open"
    /\ \/ wav_dev' = "open" /\ wav_pc' = "configure" /\ UNCHANGED wav_ret
       \/ wav_dev' = "open_failed" /\ wav_pc' = "returned" /\ wav_ret' = "Err(open pcm)"
    /\ UNCHANGED <<wav_data, wav_info>>

WavNext ==
    \/ play_parse /\ UNCHANGED notWav
    \/ play_open /\ UNCHANGED notWav

(***************************************************************************)
(* One playback unit on the PCM device: device setup and chunk writes      *)
(* (audio.rs), with no stop and no fade requested                          *)
(***************************************************************************)

\* Calls of play_wav_data a looping unit makes, at most.
MaxPlays == 2

\* let chunk_size = chunk_size.max(4096);
MIN_CHUNK == 4096

\* The decoded headers and buffer lengths explored: pcm_len is
\* data.len() - data_offset, the bytes present after the data chunk header.
PcmRates == {11025, 22055, 44100}
PcmChannels == {1, 2}
PcmBits == {8, 16, 24, 32}
PcmDataLens == {0, 1, 4097, 9000, 40000}
PcmLens == {0, 1, 4096, 4097, 9000, 40000}

\* let actual_len = pcm_data.len().min(info.data_len);
actual_len_of(info) == Min(info.pcm_len, info.data_len)

chunk_size_without_minimum(info) ==
    (info.sample_rate * info.channels * (info.bits_per_sample \div 8)) \div 10

\* let chunk_size = (rate * channels * (bits / 8)) / 10; chunk_size.max(4096)
chunk_size_of(info) ==
    LET chunk_size == (info.sample_rate * info.channels
                          * (info.bits_per_sample \div 8)) \div 10
    IN  IF chunk_size > MIN_CHUNK THEN chunk_size ELSE MIN_CHUNK

\* ---- configure_alsa: the record handed to SNDRV_PCM_IOCTL_HW_PARAMS ----

\* A u32 field holding a number, as its two 16-bit halves <<high, low>>.
u32(v) == <<v \div 65536, v % 65536>>
U32_MAX == <<65535, 65535>>

\* A u32 word of a bit mask, as the set of the positions of its set bits.
AllBits == 0..31
NoBits == {}

\* A 256-bit mask: eight words, [0; 8] and all 0xFFFFFFFF.
mask_zero == [w \in 0..7 |-> NoBits]
mask_any == [w \in 0..7 |-> AllBits]

SndInterval(min, max) == [min |-> min, max |-> max, openmin_openmax_integer_empty |-> u32(0)]

hw_format_always_s16(bits) == 2

\* let format = match bits { 16 => 2, 24 => 6, 32 => 10, _ => 2 };
hw_format(bits) ==
    CASE bits = 16 -> 2
      [] bits = 24 -> 6
      [] bits = 32 -> 10
      [] OTHER -> 2

\* The params record as configure_alsa has filled it when it calls ioctl:
\* zeroed, the masks and the reserved masks all set, the intervals 0..11 at
\* [0, u32::MAX], then the narrowing assignments in the order of the code.
hw_params_of(sample_rate, channels, bits) ==
    LET format == hw_format(bits)
        sample_bits == bits
        frame_bits == sample_bits * channels
        any_interval == [i \in 0..11 |-> SndInterval(u32(0), U32_MAX)]
    IN  [ flags |-> u32(0),
          masks |-> [m \in 0..2 |->
                      CASE m = 0 -> [mask_zero EXCEPT ![0] = {0, 3}]
                        [] m = 1 -> [mask_zero EXCEPT ![format \div 32] = {format % 32}]
                        [] m = 2 -> [mask_zero EXCEPT ![0] = {0}]],
          reserved_masks |-> [m \in 0..1 |-> mask_any],
          widened |-> any_interval,
          intervals |-> [any_interval EXCEPT
                           ![0] = SndInterval(u32(sample_bits), u32(sample_bits)),
                           ![1] = SndInterval(u32(frame_bits), u32(frame_bits)),
                           ![2] = SndInterval(u32(channels), u32(channels)),
                           ![3] = SndInterval(u32(sample_rate), u32(sample_rate)),
                           ![5] = SndInterval(u32(256), u32(16384)),
                           ![7] = SndInterval(u32(2), u32(8))],
          rmask |-> AllBits,
          cmask |-> NoBits ]

\* Before configure_alsa has run no record has been handed over.
NoParams == [passed |-> FALSE, rec |-> hw_params_of(0, 0, 0)]

\* ---- the unit ----

\* A device operation of the unit; from and to delimit the bytes of a
\* write, as indices into pcm_data.
DevOp(op, ok, from, to) == [op |-> op, ok |-> ok, from |-> from, to |-> to]

\* History of the unit: a write has failed; device operations and calls of
\* play_wav_data begun after that failure (0 or 1: some).
PcmHistStart == [write_failed |-> FALSE, ops_after_failure |-> 0, plays_after_failure |-> 0]

\* A unit about to call play_wav_data for the first time: the chime
\* (looping FALSE: one call, ctrl None) or the music thread at the top of
\* its loop (looping TRUE: ctrl present, its flags never set here).
PcmUnit(info, looping) ==
    /\ pcm_info = info
    /\ pcm_looping = looping
    /\ pcm_pc = "call"
    /\ pcm_plays = 0
    /\ pcm_offset = 0
    /\ pcm_ops = <<>>
    /\ pcm_params = NoParams
    /\ pcm_hist = PcmHistStart

PcmInit ==
    \E rate \in PcmRates, channels \in PcmChannels, bits \in PcmBits,
       data_len \in PcmDataLens, pcm_len \in PcmLens, looping \in BOOLEAN :
      PcmUnit([sample_rate |-> rate, channels |-> channels, bits_per_sample |-> bits,
               data_len |-> data_len, pcm_len |-> pcm_len], looping)

PcmIdle ==
    PcmUnit([sample_rate |-> 44100, channels |-> 2, bits_per_sample |-> 16,
             data_len |-> 0, pcm_len |-> 0], FALSE)

\* History kept by every device operation.
after_failure(h) ==
    [h EXCEPT !.ops_after_failure = IF h.write_failed THEN 1 ELSE @]

on_play_err_goes_round(looping) == IF looping THEN "call" ELSE "ended"

\* What the caller does with Err(e): the chime's closure logs it and ends
\* (lines 118-120), the loop logs it and breaks (lines 170-173).
on_play_err(looping) == "ended"

\* What the caller does with Ok(false): the chime's closure ends, the loop
\* goes round.
on_play_ok(looping) == IF looping THEN "call" ELSE "ended"

\* The unit calls play_wav_data (the loop finds the stop flag clear); the
\* header decodes to info.
pcm_play_call ==
    /\ pcm_pc = "call"
    /\ pcm_plays < MaxPlays
    /\ pcm_plays' = pcm_plays + 1
    /\ pcm_pc' = "open"
    /\ pcm_ops' = <<>>
    /\ pcm_offset' = 0
    /\ pcm_params' = NoParams
    /\ pcm_hist' = [pcm_hist EXCEPT !.plays_after_failure =
                        IF pcm_hist.write_failed THEN 1 ELSE @]
    /\ UNCHANGED <<pcm_info, pcm_looping>>

\* OpenOptions::new().write(true).open("/dev/snd/pcmC0D0p").map_err(..)?
pcm_open ==
    /\ pcm_pc = "open"
    /\ \E ok \in BOOLEAN :
         /\ pcm_ops' = Append(pcm_ops, DevOp("open_wronly", ok, 0, 0))
         /\ pcm_pc' = IF ok THEN "hw_params" ELSE on_play_err(pcm_looping)
    /\ pcm_hist' = after_failure(pcm_hist)
    /\ UNCHANGED <<pcm_info, pcm_looping, pcm_plays, pcm_offset, pcm_params>>

\* configure_alsa up to and including ioctl(fd, SNDRV_PCM_IOCTL_HW_PARAMS,
\* &mut params); ret < 0 is logged.
pcm_hw_params ==
    /\ pcm_pc = "hw_params"
    /\ pcm_params' = [passed |-> TRUE,
                      rec |-> hw_params_of(pcm_info.sample_rate, pcm_info.channels,
                                           pcm_info.bits_per_sample)]
    /\ \E ok \in BOOLEAN :
         pcm_ops' = Append(pcm_ops, DevOp("hw_params", ok, 0, 0))
    /\ pcm_pc' = "prepare"
    /\ pcm_hist' = after_failure(pcm_hist)
    /\ UNCHANGED <<pcm_info, pcm_looping, pcm_plays, pcm_offset>>

\* ioctl(fd, SNDRV_PCM_IOCTL_PREPARE); ret < 0 is logged; Ok(()), and the
\* locals of the write loop are set.
pcm_prepare ==
    /\ pcm_pc = "prepare"
    /\ \E ok \in BOOLEAN :
         pcm_ops' = Append(pcm_ops, DevOp("prepare", ok, 0, 0))
    /\ pcm_pc' = "while"
    /\ pcm_offset' = 0
    /\ pcm_hist' = after_failure(pcm_hist)
    /\ UNCHANGED <<pcm_info, pcm_looping, pcm_plays, pcm_params>>

\* One iteration of while offset < actual_len: the chunk offset..end is
\* handed to write_all_alsa unscaled (vol is 1000); an error returns Err.
pcm_write_chunk ==
    /\ pcm_pc = "while"
    /\ pcm_offset < actual_len_of(pcm_info)
    /\ LET end == Min(pcm_offset + chunk_size_of(pcm_info), actual_len_of(pcm_info))
       IN  \E ok \in BOOLEAN :
             /\ pcm_ops' = Append(pcm_ops, DevOp("write", ok, pcm_offset, end))
             /\ IF ok
                THEN /\ pcm_offset' = end
                     /\ pcm_pc' = "while"
                     /\ pcm_hist' = after_failure(pcm_hist)
                ELSE /\ pcm_offset' = pcm_offset
                     /\ pcm_pc' = on_play_err(pcm_looping)
                     /\ pcm_hist' = [after_failure(pcm_hist) EXCEPT !.write_failed = TRUE]
    /\ UNCHANGED <<pcm_info, pcm_looping, pcm_plays, pcm_params>>

\* The while condition fails: Ok(false).
pcm_play_returns ==
    /\ pcm_pc = "while"
    /\ ~(pcm_offset < actual_len_of(pcm_info))
    /\ pcm_pc' = on_play_ok(pcm_looping)
    /\ UNCHANGED <<pcm_info, pcm_looping, pcm_plays, pcm_offset, pcm_ops, pcm_params,
                   pcm_hist>>

PcmNext ==
    \/ pcm_play_call /\ UNCHANGED notPcm
    \/ pcm_open /\ UNCHANGED notPcm
    \/ pcm_hw_params /\ UNCHANGED notPcm
    \/ pcm_prepare /\ UNCHANGED notPcm
    \/ pcm_write_chunk /\ UNCHANGED notPcm
    \/ pcm_play_returns /\ UNCHANGED notPcm

(***************************************************************************)
(* Audio player and its playback units (audio.rs)                          *)
(***************************************************************************)

\* Playback units spawned over the life of the player, at most.
MaxUnits == 2

\* The WAV files the assets may be: a stereo 44.1 kHz 16-bit file, and a
\* file cut short inside its header.
WavFiles == {"stereo", "cut"}

FileBytes(f) ==
    IF f = "stereo" THEN canonical_header(2, 44100, 16, 1) \o payload(1)
    ELSE SubSeq(canonical_header(2, 44100, 16, 1), 1, 20)

\* History: an open of the PCM device has failed; units spawned after
\* that (0 or 1: some), and opens of the device those units attempted.
PlayerHistStart == [open_failed |-> FALSE, spawns_after |-> 0, opens_after |-> 0]

\* AudioPlayer::new(): available is whether the device node exists.
PlayerNew(avail, boot, post) ==
    /\ available = avail
    /\ boot_wav = boot
    /\ post_file = post
    /\ units = <<>>
    /\ pl_hist = PlayerHistStart

PlayerInit ==
    \E avail \in BOOLEAN, boot \in WavFiles, post \in WavFiles : PlayerNew(avail, boot, post)

PlayerIdle == PlayerNew(FALSE, "stereo", "stereo")

\* std::thread::spawn of a playback closure.  History of a unit: at_last,
\* the file's content on storage when its previous call of play_wav_data
\* began; stale, a call decoded bytes other than the file's content although
\* the file had changed since the previous call; late, it was spawned after
\* an open of the device had failed.
spawn(kind, at, data) ==
    /\ units' = Append(units, [kind |-> kind, upc |-> at, data |-> data,
                               stop_flag |-> FALSE, at_last |-> "none",
                               stale |-> FALSE, late |-> pl_hist.open_failed])
    /\ pl_hist' = [pl_hist EXCEPT !.spawns_after =
                       IF pl_hist.open_failed THEN 1 ELSE @]

\* if !self.available { return; }
player_enabled == available

\* pub fn play_boot_chime(&self)
play_boot_chime ==
    /\ Len(units) < MaxUnits
    /\ IF ~player_enabled
       THEN UNCHANGED <<units, pl_hist>>
       ELSE spawn("chime", "parse", boot_wav)
    /\ UNCHANGED <<available, boot_wav, post_file>>

\* pub fn play_post_music(&self) -> Option<PlayHandle>
play_post_music ==
    /\ Len(units) < MaxUnits
    /\ IF ~player_enabled
       THEN UNCHANGED <<units, pl_hist>>
       ELSE spawn("post", "read", "unread")
    /\ UNCHANGED <<available, boot_wav, post_file>>

\* PlayHandle::stop() on the handle of unit i.
handle_stop(i) ==
    /\ units[i].kind = "post"
    /\ ~units[i].stop_flag
    /\ units' = [units EXCEPT ![i].stop_flag = TRUE]
    /\ UNCHANGED <<available, boot_wav, post_file, pl_hist>>

\* let data = match std::fs::read("/usr/share/sounds/post.wav") { .. }:
\* before the loop; an error ends the thread.
unit_read_file(i) ==
    /\ units[i].upc = "read"
    /\ \/ units' = [units EXCEPT ![i].data = post_file, ![i].upc = "loop_top"]
       \/ units' = [units EXCEPT ![i].upc = "done"]
    /\ UNCHANGED <<available, boot_wav, post_file, pl_hist>>

\* loop { if stop_flag.load() { break; } match play_wav_data(&data, ..) .. }
unit_loop_top(i) ==
    /\ units[i].upc = "loop_top"
    /\ units' = [units EXCEPT ![i].upc = IF units[i].stop_flag THEN "done" ELSE "parse"]
    /\ UNCHANGED <<available, boot_wav, post_file, pl_hist>>

\* The bytes play_wav_data is called with: BOOT_WAV, or the Vec read
\* before the loop.
unit_data(i) == units[i].data

\* play_wav_data: parse_wav_header(data).ok_or(..)?
unit_parse(i) ==
    /\ units[i].upc = "parse"
    /\ LET data == unit_data(i)
           info == parse_wav_header(FileBytes(data))
       IN  units' = [units EXCEPT
                        ![i].at_last = post_file,
                        ![i].stale = \/ units[i].stale
                                     \/ /\ units[i].at_last \notin {"none", post_file}
                                        /\ data # post_file,
                        ![i].upc = IF info.kind = "Some" THEN "open" ELSE "done"]
    /\ UNCHANGED <<available, boot_wav, post_file, pl_hist>>

\* play_wav_data: open of /dev/snd/pcmC0D0p; an Err ends the thread (the
\* chime's closure logs it, the loop breaks on it).
unit_open(i) ==
    /\ units[i].upc = "open"
    /\ \/ /\ units' = [units EXCEPT ![i].upc = "write"]
          /\ pl_hist' = [pl_hist EXCEPT !.opens_after = IF units[i].late THEN 1 ELSE @]
       \/ /\ units' = [units EXCEPT ![i].upc = "done"]
          /\ pl_hist' = [pl_hist EXCEPT !.open_failed = TRUE,
                                        !.opens_after = IF units[i].late THEN 1 ELSE @]
    /\ UNCHANGED <<available, boot_wav, post_file>>

\* play_wav_data: configure_alsa and the chunk writes, until it returns
\* Ok(stopped) or a write error; the chime's thread ends with it, the loop
\* breaks when it was stopped or failed and goes round otherwise.
unit_write(i) ==
    /\ units[i].upc = "write"
    /\ \/ units' = [units EXCEPT ![i].upc = "done"]
       \/ /\ units[i].kind = "post"
          /\ ~units[i].stop_flag
          /\ units' = [units EXCEPT ![i].upc = "loop_top"]
    /\ UNCHANGED <<available, boot_wav, post_file, pl_hist>>

\* Another program replaces the file on storage.
file_replaced ==
    /\ \E f \in WavFiles \ {post_file} : post_file' = f
    /\ UNCHANGED <<available, boot_wav, units, pl_hist>>

PlayerNext ==
    \/ play_boot_chime /\ UNCHANGED notPlayer
    \/ play_post_music /\ UNCHANGED notPlayer
    \/ \E i \in 1..Len(units) : handle_stop(i) /\ UNCHANGED notPlayer
    \/ \E i \in 1..Len(units) : unit_read_file(i) /\ UNCHANGED notPlayer
    \/ \E i \in 1..Len(units) : unit_loop_top(i) /\ UNCHANGED notPlayer
    \/ \E i \in 1..Len(units) : unit_parse(i) /\ UNCHANGED notPlayer
    \/ \E i \in 1..Len(units) : unit_open(i) /\ UNCHANGED notPlayer
    \/ \E i \in 1..Len(units) : unit_write(i) /\ UNCHANGED notPlayer
    \/ file_replaced /\ UNCHANGED notPlayer

(***************************************************************************)
(* Input reader (input.rs)                                                 *)
(***************************************************************************)

\* Linux input event constants.
EV_KEY == 1
EV_ABS == 3
ABS_X == 0
ABS_Y == 1
BTN_LEFT == 272

\* The divisor of the absolute-axis scaling.
ABS_RANGE == 32768

\* let mut buf = [0u8; 8];
KBD_BUF_LEN == 8

\* ---- (ev.value as i64 * screen as i64 / 32768) as i32 ----
\* The 64-bit product does not fit the checker's integers, so the quotient
\* is carried as two 16-bit limbs, hi * 65536 + lo.  Exact for |v| < 2^31
\* and screen <= 65536.

\* |v| * s / 32768, rounded down.
quotient_limbs(v, s) ==
    LET a == IF v < 0 THEN -v ELSE v
        ah == a \div ABS_RANGE
        al == a % ABS_RANGE
        a1 == ah \div 256
        a0 == ah % 256
        sh == s \div 65536
        sl == s % 65536
        x == a1 * sl
        hi0 == ah * sh + x \div 256
        lo0 == (x % 256) * 256 + a0 * sl + (al * s) \div ABS_RANGE
    IN  [hi |-> hi0 + lo0 \div 65536, lo |-> lo0 % 65536]

\* `as i32` of a non-negative i64: the low 32 bits, read as two's complement.
as_i32(q) ==
    LET h == q.hi % 65536
    IN  IF h >= 32768 THEN (h - 65536) * 65536 + q.lo ELSE h * 65536 + q.lo

\* The i64 division truncates toward zero, so a negative product gives the
\* negated quotient of the magnitudes; its low 32 bits are the negation of
\* those of the magnitude (i32::MIN stays i32::MIN).
scaled_i32(v, s) ==
    LET m == as_i32(quotient_limbs(v, s))
    IN  IF v >= 0 THEN m
        ELSE IF m = -2147483647 - 1 THEN m ELSE -m

\* i32::clamp(min, max)
clamp(x, lo, hi) == IF x < lo THEN lo ELSE IF x > hi THEN hi ELSE x

\* self.mouse_x = (..) as i32; self.mouse_x = self.mouse_x.clamp(0, screen as i32 - 1);
scale_axis(v, s) == clamp(scaled_i32(v, s), 0, s - 1)

\* ---- poll_evdev ----

RawInputEvent(type_, code, value) == [type_ |-> type_, code |-> code, value |-> value]

\* The locals and fields poll_evdev works on.
DrainStart == [mouse_x |-> mouse_x, mouse_y |-> mouse_y, mouse_buttons |-> mouse_buttons,
               got_mouse_move |-> FALSE, got_click |-> [kind |-> "None"]]

EvNone == [kind |-> "None"]
EvMouse(x, y) == [kind |-> "Mouse", x |-> x, y |-> y, button |-> 1]
EvMouseMove(x, y) == [kind |-> "MouseMove", x |-> x, y |-> y]
EvKey(kind) == [kind |-> kind]
EvChar(b) == [kind |-> "Char", ch |-> b]

\* match ev.type_ { EV_ABS => .., EV_KEY => .., _ => {} }
on_record(ev, d) ==
    IF ev.type_ = EV_ABS
    THEN IF ev.code = ABS_X
         THEN [d EXCEPT !.mouse_x = scale_axis(ev.value, screen_width),
                        !.got_mouse_move = TRUE]
         ELSE IF ev.code = ABS_Y
         THEN [d EXCEPT !.mouse_y = scale_axis(ev.value, screen_height),
                        !.got_mouse_move = TRUE]
         ELSE d
    ELSE IF ev.type_ = EV_KEY /\ ev.code = BTN_LEFT
    THEN IF ev.value = 1
         THEN [d EXCEPT !.mouse_buttons = 1,
                        !.got_click = EvMouse(d.mouse_x, d.mouse_y)]
         ELSE IF ev.value = 0
         THEN [d EXCEPT !.mouse_buttons = 0]
         ELSE d
    ELSE d

\* for file in &mut self.evdev_fds { loop { read one record .. } }
RECURSIVE drain(_, _)
drain(recs, d) ==
    IF recs = <<>> THEN d ELSE drain(Tail(recs), on_record(Head(recs), d))

move_over_click(d) ==
    IF d.got_mouse_move THEN EvMouseMove(d.mouse_x, d.mouse_y)
    ELSE d.got_click

\* Click events take priority over move.
evdev_result(d) ==
    IF d.got_click.kind # "None" THEN d.got_click
    ELSE IF d.got_mouse_move THEN EvMouseMove(d.mouse_x, d.mouse_y)
    ELSE EvNone

\* ---- poll_keyboard ----

\* What self.tty.read(&mut buf) gave: Err(_), or Ok(n) with the n bytes it
\* placed in buf; "unread" in a history when the read was not made.
ReadErr == [kind |-> "Err", bytes |-> <<>>]
ReadOk(bytes) == [kind |-> "Ok", bytes |-> bytes]
Unread == [kind |-> "unread", bytes |-> <<>>]

escape_ignores_length(buf) ==
    IF Len(buf) >= 2 /\ buf[1] = 27 THEN EvKey("Escape") ELSE EvNone

\* n >= 3 && buf[0] == 0x1b && buf[1] == b'[' ; anything longer than one
\* byte that is not such a run is discarded.
decode_run(buf) ==
    IF Len(buf) >= 3 /\ buf[1] = 27 /\ buf[2] = 91
    THEN CASE buf[3] = 65 -> EvKey("Up")
           [] buf[3] = 66 -> EvKey("Down")
           [] buf[3] = 67 -> EvKey("Right")
           [] buf[3] = 68 -> EvKey("Left")
           [] buf[3] = 53 /\ Len(buf) >= 4 /\ buf[4] = 126 -> EvKey("PageUp")
           [] buf[3] = 54 /\ Len(buf) >= 4 /\ buf[4] = 126 -> EvKey("PageDown")
           [] OTHER -> EvNone
    ELSE EvNone

\* if n == 1 { match buf[0] { .. } }
decode_byte(b) ==
    CASE b = 27 -> EvKey("Escape")
      [] b = 13 \/ b = 10 -> EvKey("Enter")
      [] b = 127 \/ b = 8 -> EvKey("Backspace")
      [] b = 9 -> EvKey("Tab")
      [] b >= 32 /\ b < 127 -> EvChar(b)
      [] OTHER -> EvNone

poll_keyboard(read) ==
    IF read.kind = "Err" THEN EvNone
    ELSE IF Len(read.bytes) = 0 THEN EvNone
    ELSE IF Len(read.bytes) = 1 THEN decode_byte(read.bytes[1])
    ELSE decode_run(read.bytes)

\* ---- history of a poll, taken from its inputs ----

NoValue == [seen |-> FALSE, value |-> 0]

\* The value of the last record of this axis among the records drained.
RECURSIVE last_abs(_, _)
last_abs(recs, code) ==
    IF recs = <<>> THEN NoValue
    ELSE LET e == recs[Len(recs)]
         IN  IF e.type_ = EV_ABS /\ e.code = code THEN [seen |-> TRUE, value |-> e.value]
             ELSE last_abs(SubSeq(recs, 1, Len(recs) - 1), code)

IsPress(e) == e.type_ = EV_KEY /\ e.code = BTN_LEFT /\ e.value = 1
IsMotion(e) == e.type_ = EV_ABS /\ (e.code = ABS_X \/ e.code = ABS_Y)

PressIndices(recs) == {i \in 1..Len(recs) : IsPress(recs[i])}

LastPress(recs) == CHOOSE i \in PressIndices(recs) : \A j \in PressIndices(recs) : j <= i

HistOf(recs, read) ==
    [ abs_x |-> last_abs(recs, ABS_X),
      abs_y |-> last_abs(recs, ABS_Y),
      pressed |-> PressIndices(recs) # {},
      moved |-> \E i \in 1..Len(recs) : IsMotion(recs[i]),
      moved_after |-> /\ PressIndices(recs) # {}
                      /\ \E i \in 1..Len(recs) : IsMotion(recs[i]) /\ i > LastPress(recs),
      at_press |-> IF PressIndices(recs) = {} THEN <<0, 0>>
                   ELSE LET d == drain(SubSeq(recs, 1, LastPress(recs)), DrainStart)
                        IN  <<d.mouse_x, d.mouse_y>>,
      read |-> read ]

\* ---- the tty ----

\* What a non-blocking read of the tty into buf may give: an error (would
\* block, or a failure), or the pending bytes that fit in buf, none of them
\* when nothing is pending.
tty_read ==
    {ReadErr, ReadOk(SubSeq(tty_pending, 1, Min(KBD_BUF_LEN, Len(tty_pending))))}

\* The bytes left pending by a read.
tty_after(read) == SubSeq(tty_pending, Len(read.bytes) + 1, Len(tty_pending))

\* ---- pub fn poll(&mut self) -> InputEvent ----

keyboard_always_polled(ev) == TRUE

\* if let Some(ev) = self.poll_evdev() { return ev; }  self.poll_keyboard()
keyboard_polled(ev) == ev.kind = "None"

\* recs: the records the pointer devices deliver to this poll, in the order
\* they are read; read: what the tty read gives if it is made ("unread" in
\* the history otherwise).
poll(recs, read) ==
    LET d == drain(recs, DrainStart)
        ev == evdev_result(d)
    IN  /\ mouse_x' = d.mouse_x
        /\ mouse_y' = d.mouse_y
        /\ mouse_buttons' = d.mouse_buttons
        /\ IF ~keyboard_polled(ev)
           THEN /\ in_event' = ev
                /\ in_hist' = HistOf(recs, Unread)
                /\ tty_pending' = tty_pending
           ELSE /\ in_event' = poll_keyboard(read)
                /\ in_hist' = HistOf(recs, read)
                /\ tty_pending' = tty_after(read)
        /\ UNCHANGED <<screen_width, screen_height, evdev_fds>>

\* ---- the inputs explored ----

\* Records drained by one poll, at most; bytes pending on the tty, at most.
MaxRecs == 2
MaxRead == 4

AbsXVals == {-1, 16384, 2147483647}
AbsYVals == {0, 16384}

RecKinds ==
    {RawInputEvent(EV_ABS, ABS_X, v) : v \in AbsXVals}
      \cup {RawInputEvent(EV_ABS, ABS_Y, v) : v \in AbsYVals}
      \cup {RawInputEvent(EV_ABS, 2, 7)}
      \cup {RawInputEvent(EV_KEY, BTN_LEFT, v) : v \in {0, 1}}
      \cup {RawInputEvent(0, 0, 0)}

RecSeqs == UNION {[1..n -> RecKinds] : n \in 0..MaxRecs}

\* Bytes a read may hold, by position in buf.
KeyBytes == {0, 8, 9, 10, 13, 27, 31, 32, 65, 126, 127, 128, 255}
RunBytes(i) ==
    IF i = 1 THEN {27, 65}
    ELSE IF i = 2 THEN {91, 65}
    ELSE IF i = 3 THEN {53, 54, 65, 66, 67, 68, 69, 126}
    ELSE {126, 65}

RECURSIVE KbdRuns(_)
KbdRuns(n) ==
    IF n = 0 THEN {<<>>}
    ELSE {Append(r, b) : r \in KbdRuns(n - 1), b \in RunBytes(n)}

KbdReads ==
    {ReadErr, ReadOk(<<>>)} \cup {ReadOk(<<b>>) : b \in KeyBytes}
      \cup UNION {{ReadOk(r) : r \in KbdRuns(n)} : n \in 2..Min(MaxRead, KBD_BUF_LEN)}

\* The bytes typed at once: what a read may hold.
KbdBursts == {r.bytes : r \in KbdReads} \ {<<>>}

\* Bytes typed at once, explored together with pointer records.
FewBursts == {<<27, 91, 65>>}

\* Keys are typed: their bytes join the pending ones.
tty_receives(bytes) ==
    /\ Len(tty_pending) + Len(bytes) <= MaxRead
    /\ tty_pending' = tty_pending \o bytes
    /\ UNCHANGED <<screen_width, screen_height, evdev_fds, mouse_x, mouse_y,
                   mouse_buttons, in_event, in_hist>>

ScreenSizes == {<<1920, 1080>>, <<65536, 1>>, <<32768, 2>>}

\* InputReader::new_with_screen(screen_width, screen_height) returned Ok.
ReaderNew(w, h, fds) ==
    /\ screen_width = w
    /\ screen_height = h
    /\ evdev_fds = fds
    /\ mouse_x = w \div 2
    /\ mouse_y = h \div 2
    /\ mouse_buttons = 0
    /\ in_event = EvNone
    /\ in_hist = HistOf(<<>>, Unread)
    /\ tty_pending = <<>>

InputIdle == ReaderNew(1920, 1080, 0)

\* A reader with one pointer device.
PointerInit == \E wh \in ScreenSizes : ReaderNew(wh[1], wh[2], 1)

PointerNext ==
    \/ \E bytes \in FewBursts : evdev_fds > 0 /\ tty_receives(bytes) /\ UNCHANGED notInput
    \/ \E recs \in RecSeqs, read \in tty_read :
          evdev_fds > 0 /\ poll(recs, read) /\ UNCHANGED notInput

\* A reader that found no pointer device: poll() is the keyboard alone.
\* The bursts explored are typed one at a time, each onto an empty tty.
KbdInit == ReaderNew(1920, 1080, 0)

KbdNext ==
    \/ \E bytes \in KbdBursts :
          evdev_fds = 0 /\ tty_pending = <<>> /\ tty_receives(bytes) /\ UNCHANGED notInput
    \/ \E read \in tty_read : evdev_fds = 0 /\ poll(<<>>, read) /\ UNCHANGED notInput

(***************************************************************************)
(* The scenes of the shell under the hosting loop (scenes/*.rs, main.rs)   *)
(***************************************************************************)

\* Characters typed into the wizard's name field and interests selected
\* at once, at most.
MaxName == 2
MaxSelected == 1

\* const SPLASH_DURATION: f32 = 2.5; finish_duration: 3.0 -- in milliseconds.
SPLASH_DURATION_MS == 2500
FINISH_DURATION_MS == 3000

\* self.name.len() < 32
NAME_LIMIT == 32

\* INTEREST_OPTIONS.len(), and the options of a row of the grid.
INTEREST_COUNT == 10
INTEREST_ROW == 5

\* dt of a frame, in milliseconds.
DtVals == {0, 1000, 3000}

\* The events a poll hands to the scenes: printable characters, the keys,
\* a click.
ShellEvents ==
    {EvChar(32), EvChar(65), EvMouse(0, 0)}
      \cup {EvKey(k) : k \in {"Backspace", "Enter", "Tab", "Left", "Right", "Up", "Down",
                              "Escape", "PageUp"}}

\* A scene object, by the fields its transitions depend on.
SceneObj(kind) ==
    [kind |-> kind, elapsed |-> 0, step |-> "Name", name_len |-> 0, cursor |-> 0,
     selected_interests |-> {}, interest_cursor |-> 0, finish_elapsed |-> 0]

\* BootSplash::new, SetupWizard::new, Dashboard::new
BootSplash_new == SceneObj("BootSplash")
SetupWizard_new == SceneObj("SetupWizard")
Dashboard_new == SceneObj("Dashboard")

\* What a call on a scene gives: the scene as the call left it, the
\* transition returned, and whether the call wrote the setup file.
Returned(sc, tr, saved) == [scene |-> sc, tr |-> tr, saved |-> saved]

\* impl Scene for BootSplash: update
BootSplash_update(sc, dt, first_boot) ==
    LET after == [sc EXCEPT !.elapsed = sc.elapsed + dt]
    IN  IF after.elapsed >= SPLASH_DURATION_MS
        THEN IF first_boot
             THEN Returned(after, TrReplace(SetupWizard_new), FALSE)
             ELSE Returned(after, TrReplace(Dashboard_new), FALSE)
        ELSE Returned(after, TrNone, FALSE)

\* impl Scene for BootSplash: handle_input
BootSplash_handle_input(sc, ev) ==
    Returned([sc EXCEPT !.elapsed = SPLASH_DURATION_MS], TrNone, FALSE)

SetupWizard_update_pops(sc, dt) ==
    IF sc.step = "Finishing" /\ sc.finish_elapsed + dt >= FINISH_DURATION_MS
    THEN Returned(sc, TrPop, TRUE)
    ELSE Returned(sc, TrNone, FALSE)

\* impl Scene for SetupWizard: update
SetupWizard_update(sc, dt) ==
    IF sc.step = "Finishing"
    THEN LET after == [sc EXCEPT !.finish_elapsed = sc.finish_elapsed + dt]
         IN  IF after.finish_elapsed >= FINISH_DURATION_MS
             THEN Returned(after, TrReplace(Dashboard_new), TRUE)
             ELSE Returned(after, TrNone, FALSE)
    ELSE Returned(sc, TrNone, FALSE)

\* handle_input in Step::Name (the characters polled are one byte long)
SetupWizard_name_input(sc, ev) ==
    CASE ev.kind = "Char" ->
           IF sc.name_len < NAME_LIMIT
           THEN [sc EXCEPT !.name_len = sc.name_len + 1, !.cursor = sc.cursor + 1]
           ELSE sc
      [] ev.kind = "Backspace" ->
           IF sc.cursor > 0
           THEN [sc EXCEPT !.name_len = sc.name_len - 1, !.cursor = sc.cursor - 1]
           ELSE sc
      [] ev.kind \in {"Enter", "Tab"} ->
           IF sc.name_len # 0 THEN [sc EXCEPT !.step = "Interests"] ELSE sc
      [] ev.kind = "Left" ->
           IF sc.cursor > 0 THEN [sc EXCEPT !.cursor = sc.cursor - 1] ELSE sc
      [] ev.kind = "Right" ->
           IF sc.cursor < sc.name_len THEN [sc EXCEPT !.cursor = sc.cursor + 1] ELSE sc
      [] OTHER -> sc

\* handle_input in Step::Interests
SetupWizard_interests_input(sc, ev) ==
    LET toggled == IF sc.interest_cursor \in sc.selected_interests
                   THEN sc.selected_interests \ {sc.interest_cursor}
                   ELSE sc.selected_interests \cup {sc.interest_cursor}
    IN  CASE ev.kind = "Left" ->
               IF sc.interest_cursor > 0
               THEN [sc EXCEPT !.interest_cursor = sc.interest_cursor - 1] ELSE sc
          [] ev.kind = "Right" ->
               IF sc.interest_cursor < INTEREST_COUNT - 1
               THEN [sc EXCEPT !.interest_cursor = sc.interest_cursor + 1] ELSE sc
          [] ev.kind = "Up" ->
               IF sc.interest_cursor >= INTEREST_ROW
               THEN [sc EXCEPT !.interest_cursor = sc.interest_cursor - INTEREST_ROW]
               ELSE sc
          [] ev.kind = "Down" ->
               IF sc.interest_cursor + INTEREST_ROW < INTEREST_COUNT
               THEN [sc EXCEPT !.interest_cursor = sc.interest_cursor + INTEREST_ROW]
               ELSE sc
          [] ev.kind = "Enter" \/ (ev.kind = "Char" /\ ev.ch = 32) ->
               [sc EXCEPT !.selected_interests = toggled]
          [] ev.kind = "Tab" ->
               IF sc.selected_interests # {} THEN [sc EXCEPT !.step = "Finishing"] ELSE sc
          [] ev.kind = "Escape" -> [sc EXCEPT !.step = "Name"]
          [] OTHER -> sc

\* impl Scene for SetupWizard: handle_input
SetupWizard_handle_input(sc, ev) ==
    CASE sc.step = "Name" -> Returned(SetupWizard_name_input(sc, ev), TrNone, FALSE)
      [] sc.step = "Interests" ->
           Returned(SetupWizard_interests_input(sc, ev), TrNone, FALSE)
      [] sc.step = "Finishing" -> Returned(sc, TrNone, FALSE)

\* impl Scene for Dashboard: update and handle_input (telemetry, omnibar
\* and cards are not followed)
Dashboard_update(sc, dt) == Returned(sc, TrNone, FALSE)
Dashboard_handle_input(sc, ev) == Returned(sc, TrNone, FALSE)

\* scene.update(dt) and scene.handle_input(event) on a Box<dyn Scene>
Scene_update(sc, dt, first_boot) ==
    CASE sc.kind = "BootSplash" -> BootSplash_update(sc, dt, first_boot)
      [] sc.kind = "SetupWizard" -> SetupWizard_update(sc, dt)
      [] sc.kind = "Dashboard" -> Dashboard_update(sc, dt)

Scene_handle_input(sc, ev) ==
    CASE sc.kind = "BootSplash" -> BootSplash_handle_input(sc, ev)
      [] sc.kind = "SetupWizard" -> SetupWizard_handle_input(sc, ev)
      [] sc.kind = "Dashboard" -> Dashboard_handle_input(sc, ev)

\* History: the last call made on a scene and the transition it returned.
ShellCall(op, from, tr) == [op |-> op, from |-> from, tr |-> tr]

\* main: SceneManager::new(Box::new(BootSplash::new(..))), about to poll.
ShellNew(setup_file) ==
    /\ sh_stack = <<BootSplash_new>>
    /\ sh_pc = "input"
    /\ sh_setup_file = setup_file
    /\ sh_call = ShellCall("new", "none", "NotCalled")

ShellInit == \E setup_file \in BOOLEAN : ShellNew(setup_file)

ShellIdle == ShellNew(FALSE)

\* The typing explored stays within MaxName characters and MaxSelected
\* selected interests.
Explored(ev) ==
    LET top == sh_stack[Len(sh_stack)]
    IN  (Len(sh_stack) > 0 /\ top.kind = "SetupWizard") =>
          /\ (top.step = "Name" /\ ev.kind = "Char") => top.name_len < MaxName
          /\ (top.step = "Interests" /\ (ev.kind = "Enter" \/ ev.kind = "Char")) =>
                (\/ top.interest_cursor \in top.selected_interests
                 \/ Cardinality(top.selected_interests) < MaxSelected)

\* SceneManager::update / handle_input with the result r of the call on the
\* top scene: apply(transition); save_setup's write may fail silently.
shell_apply(op, r) ==
    /\ sh_stack' = apply([sh_stack EXCEPT ![Len(sh_stack)] = r.scene], r.tr)
    /\ sh_call' = ShellCall(op, sh_stack[Len(sh_stack)].kind, r.tr.kind)
    /\ IF r.saved
       THEN \E written \in BOOLEAN : sh_setup_file' = (sh_setup_file \/ written)
       ELSE sh_setup_file' = sh_setup_file

\* let event = input_reader.poll(); if has_input { handle_input(event) }
shell_input ==
    /\ sh_pc = "input"
    /\ \/ UNCHANGED <<sh_stack, sh_setup_file, sh_call>>
       \/ \E ev \in ShellEvents :
            /\ Explored(ev)
            /\ IF Len(sh_stack) = 0
               THEN UNCHANGED <<sh_stack, sh_setup_file, sh_call>>
               ELSE shell_apply("handle_input",
                                Scene_handle_input(sh_stack[Len(sh_stack)], ev))
    /\ sh_pc' = "update"

\* scene_manager.update(dt)
shell_update ==
    /\ sh_pc = "update"
    /\ \E dt \in DtVals :
         IF Len(sh_stack) = 0
         THEN UNCHANGED <<sh_stack, sh_setup_file, sh_call>>
         ELSE shell_apply("update",
                          Scene_update(sh_stack[Len(sh_stack)], dt, ~sh_setup_file))
    /\ sh_pc' = "check"

\* if scene_manager.is_empty() { break; } then draw, present and sleep.
shell_check ==
    /\ sh_pc = "check"
    /\ sh_pc' = IF Len(sh_stack) = 0 THEN "exited" ELSE "input"
    /\ UNCHANGED <<sh_stack, sh_setup_file, sh_call>>

ShellNext ==
    \/ shell_input /\ UNCHANGED notShell
    \/ shell_update /\ UNCHANGED notShell
    \/ shell_check /\ UNCHANGED notShell

(***************************************************************************)
(* Hosting loop (main.rs)                                                  *)
(***************************************************************************)

\* if idle_frames < 60
IDLE_THRESHOLD == 60

\* idle_frames saturates (u32::MAX in the code); the model saturates it right
\* above the threshold, where the pacing no longer changes.
IdleFramesCap == IDLE_THRESHOLD + 1

\* InputEvent, by the kinds the loop tells apart: None or an event.
InputEvents == {"None", "Key", "Mouse"}

loop_body_update_first == <<"poll", "update", "input", "check", "draw", "present", "sleep">>

\* The statements of the loop body in source order.
loop_body == <<"poll", "input", "update", "check", "draw", "present", "sleep">>

\* The statement after p in the loop body; the last one leads back to the first.
next_pc(p) ==
    LET i == CHOOSE j \in 1..Len(loop_body) : loop_body[j] = p
    IN  loop_body[(i % Len(loop_body)) + 1]

\* let frame_duration_active = Duration::from_millis(1000 / 30);
\* let frame_duration_idle = Duration::from_millis(1000 / 10);
FRAME_MS_ACTIVE == 1000 \div 30
FRAME_MS_IDLE == 1000 \div 10

\* What the locals own once main has reached its loop: /dev/fb0 open and
\* mapped, the tty in raw mode with the original attributes saved.
ProcAtLoop ==
    /\ fb_fd = "open"
    /\ fb_map = "mapped"
    /\ fb_unmaps = 0
    /\ fb_unmap_fd = "none"
    /\ fb_misuse = FALSE
    /\ tty_attrs = "raw"
    /\ saved_termios = "Some"

\* History of a frame at its poll: the depth of the stack then; the stack
\* its first SceneManager call leaves is recorded when that call returns.
FrameHistAt(s) == [depth |-> Len(s), after_first |-> <<>>]
\* (Before the first frame the stack is the vec![initial] of SceneManager::new.)

\* Main before its loop: idle_frames = 0, nothing polled yet.
MainStart ==
    /\ pc = loop_body[1]
    /\ event = "None"
    /\ idle_frames = 0
    /\ frame_calls = <<>>
    /\ frame_hist = FrameHistAt(<<NoScene>>)
    /\ frame_period = 0
    /\ noinput_run = 0
    /\ ProcAtLoop

\* The loop as the other specifications hold it.
MainIdle == MainStart

\* let event = input_reader.poll();
frame_poll ==
    /\ pc = "poll"
    /\ \E ev \in InputEvents :
          /\ event' = ev
          /\ noinput_run' = IF ev = "None" THEN Min(noinput_run + 1, IdleFramesCap) ELSE 0
    /\ frame_calls' = <<>>
    /\ frame_hist' = FrameHistAt(stack)
    /\ pc' = next_pc("poll")
    /\ UNCHANGED <<idle_frames, frame_period, sceneVars, procVars>>

\* idle_frames.saturating_add(1)
idle_frames_saturating_add == Min(idle_frames + 1, IdleFramesCap)

\* if has_input { handle_input(event); idle_frames = 0 } else { idle_frames += 1 }
frame_input ==
    /\ pc = "input"
    /\ IF event # "None"
       THEN /\ SceneManager_handle_input
            /\ frame_calls' = Append(frame_calls, "handle_input")
            /\ frame_hist' = [frame_hist EXCEPT !.after_first = stack']
            /\ idle_frames' = 0
       ELSE /\ idle_frames' = idle_frames_saturating_add
            /\ UNCHANGED <<frame_calls, frame_hist, sceneVars>>
    /\ pc' = next_pc("input")
    /\ UNCHANGED <<event, frame_period, noinput_run, procVars>>

\* scene_manager.update(dt);
frame_update ==
    /\ pc = "update"
    /\ SceneManager_update
    /\ frame_calls' = Append(frame_calls, "update")
    /\ frame_hist' = IF frame_calls = <<>>
                     THEN [frame_hist EXCEPT !.after_first = stack']
                     ELSE frame_hist
    /\ pc' = next_pc("update")
    /\ UNCHANGED <<event, idle_frames, frame_period, noinput_run, procVars>>

frame_check_never_exits ==
    /\ pc = "check"
    /\ pc' = next_pc("check")
    /\ UNCHANGED <<event, idle_frames, frame_calls, frame_hist, frame_period, noinput_run,
                   sceneVars, procVars>>

\* if scene_manager.is_empty() { break; }
frame_check ==
    /\ pc = "check"
    /\ pc' = IF is_empty THEN "exited" ELSE next_pc("check")
    /\ UNCHANGED <<event, idle_frames, frame_calls, frame_hist, frame_period, noinput_run,
                   sceneVars, procVars>>

\* scene_manager.draw, draw_cursor, render.copy_to (pixel content: SpecFb)
frame_draw ==
    /\ pc = "draw"
    /\ pc' = next_pc("draw")
    /\ UNCHANGED <<event, idle_frames, frame_calls, frame_hist, frame_period, noinput_run,
                   sceneVars, procVars>>

\* framebuffer.present() (pixel content: SpecFb): it reads and writes the
\* mapping through fb_ptr.
frame_present ==
    /\ pc = "present"
    /\ pc' = next_pc("present")
    /\ fb_misuse' = (fb_misuse \/ fb_map # "mapped")
    /\ UNCHANGED <<event, idle_frames, frame_calls, frame_hist, frame_period, noinput_run, sceneVars,
                   fb_fd, fb_map, fb_unmaps, fb_unmap_fd, tty_attrs, saved_termios>>

frame_duration_threshold_inclusive ==
    IF idle_frames <= IDLE_THRESHOLD THEN FRAME_MS_ACTIVE ELSE FRAME_MS_IDLE

\* The frame period chosen at the end of a frame, in milliseconds.
frame_duration == IF idle_frames < IDLE_THRESHOLD THEN FRAME_MS_ACTIVE ELSE FRAME_MS_IDLE

\* std::thread::sleep(frame_duration - elapsed), then the next iteration.
frame_sleep ==
    /\ pc = "sleep"
    /\ frame_period' = frame_duration
    /\ pc' = next_pc("sleep")
    /\ UNCHANGED <<event, idle_frames, frame_calls, frame_hist, noinput_run, sceneVars, procVars>>

Init == MainStart /\ SceneIdle /\ FbIdle /\ AudioIdle /\ WavIdle /\ InputIdle /\ PlayerIdle
    /\ PcmIdle /\ RendIdle /\ ShellIdle

Next ==
    \/ frame_poll /\ UNCHANGED notMain
    \/ frame_input /\ UNCHANGED notMain
    \/ frame_update /\ UNCHANGED notMain
    \/ frame_check /\ UNCHANGED notMain
    \/ frame_draw /\ UNCHANGED notMain
    \/ frame_present /\ UNCHANGED notMain
    \/ frame_sleep /\ UNCHANGED notMain

Spec == Init /\ [][Next]_vars

\* ---- main before and after its loop ----

\* main at its first statement: nothing opened, the terminal as the
\* hosting console left it.
ProcStart ==
    /\ pc = "open_fb"
    /\ event = "None"
    /\ idle_frames = 0
    /\ frame_calls = <<>>
    /\ frame_hist = FrameHistAt(<<NoScene>>)
    /\ frame_period = 0
    /\ noinput_run = 0
    /\ fb_fd = "none"
    /\ fb_map = "none"
    /\ fb_unmaps = 0
    /\ fb_unmap_fd = "none"
    /\ fb_misuse = FALSE
    /\ tty_attrs = "original"
    /\ saved_termios = "None"

\* The steps at which Framebuffer::open can return Err.
FbOpenFailures == {"open", "FBIOGET_VSCREENINFO", "FBIOGET_FSCREENINFO", "zero fb size", "mmap"}

\* Framebuffer::open("/dev/fb0"): on Err main calls process::exit(1).  A
\* failure after the open drops `file`, which closes the descriptor; no
\* failure comes after the mmap.
Framebuffer_open ==
    /\ pc = "open_fb"
    /\ \/ /\ fb_fd' = "open"
          /\ fb_map' = "mapped"
          /\ pc' = "new_input"
       \/ \E step \in FbOpenFailures :
             /\ fb_fd' = IF step = "open" THEN "none" ELSE "closed"
             /\ fb_map' = "none"
             /\ pc' = "exit(1): fb"
    /\ UNCHANGED <<event, idle_frames, frame_calls, frame_hist, frame_period, noinput_run, sceneVars,
                   fb_unmaps, fb_unmap_fd, fb_misuse, tty_attrs, saved_termios>>

\* InputReader::new_with_screen: Err only when neither tty can be opened
\* (main then calls process::exit(1)); raw mode is applied only when
\* tcgetattr succeeded, and the attributes it returned are saved.
InputReader_new ==
    /\ pc = "new_input"
    /\ \/ /\ pc' = "exit(1): input"
          /\ UNCHANGED <<tty_attrs, saved_termios>>
       \/ /\ pc' = loop_body[1]
          /\ saved_termios' = "None"
          /\ UNCHANGED tty_attrs
       \/ /\ pc' = loop_body[1]
          /\ saved_termios' = "Some"
          /\ tty_attrs' = "raw"
    /\ UNCHANGED <<event, idle_frames, frame_calls, frame_hist, frame_period, noinput_run, sceneVars,
                   fb_fd, fb_map, fb_unmaps, fb_unmap_fd, fb_misuse>>

\* main returns after the loop: its locals are dropped in reverse order of
\* declaration, input_reader before framebuffer.
\* Drop for InputReader: if let Some(termios) = self.saved_termios { tcsetattr }
InputReader_drop ==
    /\ pc = "exited"
    /\ tty_attrs' = IF saved_termios = "Some" THEN "original" ELSE tty_attrs
    /\ pc' = "drop_fb"
    /\ UNCHANGED <<event, idle_frames, frame_calls, frame_hist, frame_period, noinput_run, sceneVars,
                   fb_fd, fb_map, fb_unmaps, fb_unmap_fd, fb_misuse, saved_termios>>

Framebuffer_drop_closes_first ==
    /\ pc = "drop_fb"
    /\ fb_fd' = "closed"
    /\ fb_map' = "unmapped"
    /\ fb_unmaps' = fb_unmaps + 1
    /\ fb_unmap_fd' = fb_fd'
    /\ pc' = "drop_fb_file"
    /\ UNCHANGED <<event, idle_frames, frame_calls, frame_hist, frame_period, noinput_run, sceneVars,
                   fb_misuse, tty_attrs, saved_termios>>

\* Drop for Framebuffer: munmap(fb_ptr, fb_len) when fb_len > 0 and the
\* pointer is not null, which open() guarantees.
Framebuffer_drop ==
    /\ pc = "drop_fb"
    /\ fb_map' = "unmapped"
    /\ fb_unmaps' = fb_unmaps + 1
    /\ fb_unmap_fd' = fb_fd
    /\ fb_misuse' = (fb_misuse \/ fb_map # "mapped")
    /\ pc' = "drop_fb_file"
    /\ UNCHANGED <<event, idle_frames, frame_calls, frame_hist, frame_period, noinput_run, sceneVars,
                   fb_fd, tty_attrs, saved_termios>>

\* The fields are dropped after Drop::drop returned: _file closes.
Framebuffer_file_drop ==
    /\ pc = "drop_fb_file"
    /\ fb_fd' = "closed"
    /\ pc' = "returned"
    /\ UNCHANGED <<event, idle_frames, frame_calls, frame_hist, frame_period, noinput_run, sceneVars,
                   fb_map, fb_unmaps, fb_unmap_fd, fb_misuse, tty_attrs, saved_termios>>

\* Where main is while its process runs.
Running == {"open_fb", "new_input", "exited", "drop_fb", "drop_fb_file"}
               \cup {loop_body[i] : i \in 1..Len(loop_body)}

\* The process is ended by a signal (main installs no handler): nothing
\* more of the program runs, no local is dropped.
killed_by_signal ==
    /\ pc \in Running
    /\ pc' = "killed"
    /\ UNCHANGED <<event, idle_frames, frame_calls, frame_hist, frame_period, noinput_run, sceneVars,
                   procVars>>

InitProc == ProcStart /\ SceneIdle /\ FbIdle /\ AudioIdle /\ WavIdle /\ InputIdle /\ PlayerIdle
    /\ PcmIdle /\ RendIdle /\ ShellIdle

ProcNext ==
    \/ Framebuffer_open /\ UNCHANGED notMain
    \/ InputReader_new /\ UNCHANGED notMain
    \/ frame_poll /\ UNCHANGED notMain
    \/ frame_input /\ UNCHANGED notMain
    \/ frame_update /\ UNCHANGED notMain
    \/ frame_check /\ UNCHANGED notMain
    \/ frame_draw /\ UNCHANGED notMain
    \/ frame_present /\ UNCHANGED notMain
    \/ frame_sleep /\ UNCHANGED notMain
    \/ InputReader_drop /\ UNCHANGED notMain
    \/ Framebuffer_drop /\ UNCHANGED notMain
    \/ Framebuffer_file_drop /\ UNCHANGED notMain
    \/ killed_by_signal /\ UNCHANGED notMain

SpecProc == InitProc /\ [][ProcNext]_vars

InitScene == SceneInit /\ FbIdle /\ MainIdle /\ AudioIdle /\ WavIdle /\ InputIdle /\ PlayerIdle
    /\ PcmIdle /\ RendIdle /\ ShellIdle

SpecScene == InitScene /\ [][SceneNext]_vars

FbNext ==
    \/ \E i \in 0..(fb_len - 1), v \in ByteVals :
          back_buffer_write(i, v) /\ UNCHANGED notFb
    \/ mark_dirty /\ UNCHANGED notFb
    \/ present /\ UNCHANGED notFb

InitAudio == AudioInit /\ FbIdle /\ SceneIdle /\ MainIdle /\ WavIdle /\ InputIdle /\ PlayerIdle
    /\ PcmIdle /\ RendIdle /\ ShellIdle

SpecAudio == InitAudio /\ [][AudioNext]_vars

InitFb == FbInit /\ SceneIdle /\ MainIdle /\ AudioIdle /\ WavIdle /\ InputIdle /\ PlayerIdle
    /\ PcmIdle /\ RendIdle /\ ShellIdle

SpecFb == InitFb /\ [][FbNext]_vars

InitWav == WavInit /\ FbIdle /\ SceneIdle /\ MainIdle /\ AudioIdle /\ InputIdle /\ PlayerIdle
    /\ PcmIdle /\ RendIdle /\ ShellIdle

SpecWav == InitWav /\ [][WavNext]_vars

InitPointer == PointerInit /\ FbIdle /\ SceneIdle /\ MainIdle /\ AudioIdle /\ WavIdle /\ PlayerIdle
    /\ PcmIdle /\ RendIdle /\ ShellIdle

SpecPointer == InitPointer /\ [][PointerNext]_vars

InitKbd == KbdInit /\ FbIdle /\ SceneIdle /\ MainIdle /\ AudioIdle /\ WavIdle /\ PlayerIdle
    /\ PcmIdle /\ RendIdle /\ ShellIdle

SpecKbd == InitKbd /\ [][KbdNext]_vars

InitPlayer ==
    PlayerInit /\ FbIdle /\ SceneIdle /\ MainIdle /\ AudioIdle /\ WavIdle /\ InputIdle
    /\ PcmIdle /\ RendIdle /\ ShellIdle

SpecPlayer == InitPlayer /\ [][PlayerNext]_vars

InitShell ==
    ShellInit /\ FbIdle /\ SceneIdle /\ MainIdle /\ AudioIdle /\ WavIdle /\ InputIdle
    /\ PlayerIdle /\ PcmIdle /\ RendIdle

SpecShell == InitShell /\ [][ShellNext]_vars

InitRend ==
    RendInit /\ SceneIdle /\ MainIdle /\ AudioIdle /\ WavIdle /\ InputIdle /\ PlayerIdle
    /\ PcmIdle /\ ShellIdle

SpecRend == InitRend /\ [][RendNext]_vars

InitPcm ==
    PcmInit /\ FbIdle /\ SceneIdle /\ MainIdle /\ AudioIdle /\ WavIdle /\ InputIdle
    /\ PlayerIdle /\ RendIdle /\ ShellIdle

\* The unit's thread keeps running: a step it can take is eventually taken.
SpecPcm == InitPcm /\ [][PcmNext]_vars /\ WF_vars(PcmNext)

\* Offsets of the whole 4-byte pixels of the buffers.
PixelOffsets == {p \in 0..(fb_len - 1) : p % 4 = 0 /\ p + 3 <= fb_len - 1}

\* The mapped region holds the back buffer with red and blue exchanged.
MappedIsSwappedBack ==
    \A p \in PixelOffsets :
        /\ mapped[p] = back_buffer[p + 2]
        /\ mapped[p + 1] = back_buffer[p + 1]
        /\ mapped[p + 2] = back_buffer[p]
        /\ mapped[p + 3] = back_buffer[p + 3]

\* C1: a present() called while the back buffer equals the previous-frame
\* snapshot and dirty is not set stores nothing into the mapped region and
\* leaves mapped, prev_buffer and dirty as they were; the mapped region is
\* stored into only by a step taken while the buffers differ or dirty is set.
C1_PresentSkipsWhenClean ==
    [][ /\ (back_buffer = prev_buffer /\ ~dirty /\ present)
            => (/\ fb_writes' = 0
                /\ mapped' = mapped
                /\ prev_buffer' = prev_buffer
                /\ dirty' = dirty)
        /\ (fb_writes' > 0 \/ mapped' # mapped \/ fb_op' = "present_blit")
            => (present /\ (back_buffer # prev_buffer \/ dirty)) ]_vars

\* C1 witness: a present() that skipped on a two-pixel buffer with content.
C1_Witness ==
    /\ fb_op = "present_skip"
    /\ fb_writes = 0
    /\ fb_len = 8
    /\ back_buffer = prev_buffer
    /\ back_buffer[5] = 255
    /\ ~dirty

\* C2: right after a present() that blitted, every pixel of the mapped
\* region is the back buffer's pixel with bytes 0 and 2 exchanged and
\* bytes 1 and 3 kept, and the blit stored every whole pixel.
C2_BlitSwapsRedBlue ==
    fb_op = "present_blit" =>
        /\ \A p \in PixelOffsets :
              /\ mapped[p] = back_buffer[p + 2]
              /\ mapped[p + 1] = back_buffer[p + 1]
              /\ mapped[p + 2] = back_buffer[p]
              /\ mapped[p + 3] = back_buffer[p + 3]
        /\ fb_writes = 4 * Cardinality(PixelOffsets)

\* C2 witness: a blit of two pixels whose red and blue bytes differ.
C2_Witness ==
    /\ fb_op = "present_blit"
    /\ fb_len = 8
    /\ back_buffer[0] = 255 /\ back_buffer[2] = 0
    /\ back_buffer[4] = 0 /\ back_buffer[6] = 255
    /\ back_buffer[3] = 255 /\ back_buffer[7] = 0

\* C3: right after any present(), blitting or skipping, prev_buffer equals
\* the back buffer, dirty is false and the mapped region is the R/B-swapped
\* back buffer (over its whole pixels); until the first present() the
\* frame counts as dirty, so the first present() blits.
C3_AfterPresentInSync ==
    /\ fb_op \in {"present_skip", "present_blit"} =>
          /\ prev_buffer = back_buffer
          /\ ~dirty
          /\ MappedIsSwappedBack
    /\ ~fb_presented => (is_dirty /\ dirty)

\* C3 witness: a present() that skipped after earlier writes and blits left
\* non-initial content with different red and blue bytes.
C3_Witness ==
    /\ fb_op = "present_skip"
    /\ fb_presented
    /\ fb_len >= 4
    /\ back_buffer[0] # back_buffer[2]

\* C25: after the painted frame has been copied into the back buffer and
\* presented, the four mapped bytes at y * stride + 4 * x are the (B, G,
\* R, A) of the frame's pixel (x, y), for every x < width and y < height.
C25_PixelsAtStrideOffsets ==
    (rend_copied /\ fb_op \in {"present_blit", "present_skip"}) =>
        \A x \in 0..(fb_info.width - 1), y \in 0..(fb_info.height - 1) :
            LET at == y * fb_info.stride + 4 * x
                px == 4 * (y * fb_info.width + x)
            IN  /\ mapped[at] = pixmap[px + 2]
                /\ mapped[at + 1] = pixmap[px + 1]
                /\ mapped[at + 2] = pixmap[px]
                /\ mapped[at + 3] = pixmap[px + 3]

(***************************************************************************)
(* Scene stack: claims                                                     *)
(***************************************************************************)

\* The scenes under the top n of the entered stack are where and what they were.
LowerKept(n) == \A i \in 1..n : i <= Len(stack) /\ stack[i] = sc_pre[i]

\* C4: Push(s) appends s, which becomes the top, over the scene that
\* returned it; Replace(s) on depth n >= 1 keeps depth n and changes only the
\* top to s; Pop removes only the top (depth n - 1, [A] becomes []); None
\* keeps the stack's scenes and depth.
C4_TransitionsShapeStack ==
    LET n == Len(sc_pre)
        t == sc_call.tr
    IN  /\ t.kind = "Push" =>
              /\ Len(stack) = n + 1
              /\ stack[n + 1] = t.scene
              /\ stack[n].id = sc_pre[n].id
              /\ LowerKept(n - 1)
        /\ t.kind = "Replace" =>
              /\ n >= 1
              /\ Len(stack) = n
              /\ stack[n] = t.scene
              /\ LowerKept(n - 1)
        /\ t.kind = "Pop" =>
              /\ Len(stack) = n - 1
              /\ LowerKept(n - 1)
              /\ (n = 1 => stack = <<>>)
        /\ t.kind = "None" =>
              /\ Len(stack) = n
              /\ stack[n].id = sc_pre[n].id
              /\ LowerKept(n - 1)

\* C4 witness: Replace applied to [A, B] gave [A, C] with C another scene.
C4_Witness ==
    /\ sc_call.tr.kind = "Replace"
    /\ Len(sc_pre) = 2
    /\ Len(stack) = 2
    /\ stack[2].id # sc_pre[2].id
    /\ stack[1] = sc_pre[1]

\* C10: a SceneManager call delivers to the top scene only: the top has
\* received one more call, every scene below it is unchanged by the call,
\* every covered scene is as it was when it was covered, and the scene a Pop
\* uncovers is in the state it had when it was covered.
C10_OnlyTopReceives ==
    LET n == Len(sc_pre)
        t == sc_call.tr
    IN  /\ t.kind # "NotCalled" => LowerKept(n - 1)
        /\ t.kind \in {"None", "Push"} =>
              stack[n].seen = Min(sc_pre[n].seen + 1, sc_cap)
        /\ Len(sc_covered) = (IF Len(stack) = 0 THEN 0 ELSE Len(stack) - 1)
        /\ \A i \in 1..(Len(stack) - 1) : stack[i] = sc_covered[i]
        /\ (t.kind = "Pop" /\ Len(stack) >= 1) => stack[Len(stack)] = sc_call.resumed

\* C10 witness: a Pop from depth 3 uncovered a scene that had received calls
\* before it was covered, while the popped scene had received calls above it.
C10_Witness ==
    /\ sc_call.tr.kind = "Pop"
    /\ Len(sc_pre) = 3
    /\ sc_pre[3].seen >= 1
    /\ Len(stack) = 2
    /\ stack[2].seen = 1
    /\ stack[1].seen = 2

(***************************************************************************)
(* Hosting loop: claims                                                    *)
(***************************************************************************)

\* C5: the loop is left only from its per-frame check and exactly when the
\* stack is empty there; the stack is non-empty wherever the frame draws,
\* presents or sleeps; handle_input and update on an empty stack leave it
\* empty and call no scene.
C5_ExitOnlyOnEmptyStack ==
    /\ [](/\ pc \in {"draw", "present", "sleep"} => stack # <<>>
          /\ pc = "exited" => stack = <<>>)
    /\ [][ /\ (pc = "check" /\ stack = <<>>) => pc' = "exited"
           /\ (pc = "check" /\ stack # <<>>) => pc' = "draw"
           /\ (pc' = "exited" /\ pc # "exited") => (pc = "check" /\ stack = <<>>)
           /\ (stack = <<>> /\ pc \in {"input", "update"}) =>
                  (stack' = <<>> /\ (sc_call' # sc_call => sc_call'.tr = NotCalled)) ]_vars

\* C5 witness: the loop has exited after handle_input emptied the stack and
\* update was then called on the empty stack.
C5_Witness ==
    /\ pc = "exited"
    /\ stack = <<>>
    /\ frame_calls = <<"handle_input", "update">>
    /\ sc_call.op = "update"
    /\ sc_call.tr = NotCalled

\* C9 as claimed: in a frame, update is called before handle_input.
C9_UpdateBeforeInput ==
    \A i, j \in 1..Len(frame_calls) :
        (frame_calls[i] = "update" /\ frame_calls[j] = "handle_input") => i < j

\* C9 as amended: in every frame the polled event, when there is one, is
\* forwarded (handle_input) first and elapsed time (update) after it; a
\* frame whose poll returned no event forwards elapsed time only.
C9_InputBeforeUpdate ==
    /\ pc = "input" => frame_calls = <<>>
    /\ pc = "update" =>
          frame_calls = (IF event = "None" THEN <<>> ELSE <<"handle_input">>)
    /\ pc \in {"check", "draw", "present", "sleep", "exited"} =>
          frame_calls = (IF event = "None" THEN <<"update">> ELSE <<"handle_input", "update">>)

\* C9 witness: a frame that polled a key has made both calls, input first.
C9_Witness ==
    /\ pc = "check"
    /\ event = "Key"
    /\ frame_calls = <<"handle_input", "update">>
    /\ sc_call.op = "update"

\* The stack a call leaves when it found stack s, made the call on the top
\* scene and applied the one transition t that scene returned.
AfterOneTransition(s, t) ==
    LET n == Len(s)
        called == [s EXCEPT ![n] = [@ EXCEPT !.seen = Min(@ + 1, sc_cap)]]
    IN  CASE t.kind = "NotCalled" -> s
          [] t.kind = "None" -> called
          [] t.kind = "Push" -> Append(called, t.scene)
          [] t.kind = "Replace" -> Append(SubSeq(called, 1, n - 1), t.scene)
          [] t.kind = "Pop" -> SubSeq(called, 1, n - 1)

\* C24: when update or handle_input returns, the stack is the one it found
\* with the top scene's one transition applied; a step changes the depth by
\* at most 1 and a frame, of at most two calls, by at most 2; and the stack
\* the frame's second call finds, whose top scene it calls, is the stack its
\* first call left.
C24_OneTransitionPerCall ==
    /\ [](/\ Len(frame_calls) <= 2
          /\ Len(frame_calls) >= 1 =>
                /\ sc_call.op = frame_calls[Len(frame_calls)]
                /\ stack = AfterOneTransition(sc_pre, sc_call.tr)
                /\ sc_call.tr = NotCalled <=> sc_pre = <<>>
          /\ Len(stack) - frame_hist.depth <= Len(frame_calls)
          /\ frame_hist.depth - Len(stack) <= Len(frame_calls)
          /\ Len(frame_calls) = 1 => frame_hist.after_first = stack
          /\ Len(frame_calls) = 2 => sc_pre = frame_hist.after_first)
    /\ [][ /\ Len(stack') - Len(stack) \in {-1, 0, 1}
           /\ stack' # stack => pc \in {"input", "update"} ]_vars

\* C24 witness: a frame whose handle_input pushed a scene and whose update,
\* called on that pushed scene, pushed another: the depth grew by 2.
C24_Witness ==
    /\ frame_calls = <<"handle_input", "update">>
    /\ Len(stack) = frame_hist.depth + 2
    /\ sc_call.tr.kind = "Push"
    /\ Len(frame_hist.after_first) = frame_hist.depth + 1
    /\ sc_pre[Len(sc_pre)] = frame_hist.after_first[Len(frame_hist.after_first)]
    /\ stack[Len(stack) - 1].id = sc_pre[Len(sc_pre)].id

(***************************************************************************)
(* Playback session: claims                                                *)
(***************************************************************************)

\* Exactly one fade_out call has been made and none is in progress.
OneFadeRequested == a_hist.fade_calls = 1 /\ cpc = "idle"

\* C6 as claimed: after one fade_out(D), the thread writes no chunk from a
\* chunk boundary at which the time since it first observed the fade is
\* >= D: the session ends at the first such boundary.
C6_FadeEndsAtDuration ==
    (OneFadeRequested /\ apc = "write" /\ a_hist.fade_seen_at # NoTime
        /\ a_hist.chk_time # NoTime)
    => a_hist.chk_time - a_hist.fade_seen_at < a_hist.chk_dur

\* C7 as claimed: during the fade of one fade_out(D) the volume stored at a
\* chunk boundary is 1000 - floor(1000 * e / D), e measured from the first
\* observation of the fade in the session, and the stored volume never rises.
C7_VolumeRampNeverRises ==
    [][ OneFadeRequested =>
          /\ volume' <= volume
          /\ (apc = "fade_apply" /\ apc' = "write") =>
                /\ fade_duration_ms > 0
                /\ volume' = VOLUME_FULL
                            - ((1000 * (now - a_hist.fade_seen_at)) \div fade_duration_ms) ]_vars

\* C30 as claimed: whenever the playback thread has seen fade_flag set and
\* loaded the duration, the value it loaded is the argument of a fade_out
\* call already made, never the 3000 ms the session was created with.
C30_DurationIsARequestedOne ==
    a_hist.chk_time # NoTime => a_hist.chk_dur \in a_hist.fade_args

\* C8: after stop() has stored the flag the thread starts at most one more
\* chunk write, and only one whose stop check came before the store; it
\* starts no loop iteration; once the write in flight has returned its next
\* steps only lead to its end; and every chunk write and every loop
\* iteration is entered through a load of the flag that found it clear.
C8_StopEndsPlayback ==
    /\ [](/\ a_hist.writes_after_stop <= 1
          /\ a_hist.iters_after_stop = 0
          /\ a_hist.writes_after_stop = 1 =>
                a_hist.apc_at_stop \in {"fade_check", "fade_apply"})
    /\ [][ /\ a_hist.stop_called =>
                /\ (apc = "loop_top" /\ apc' # apc) => apc' = "done"
                /\ (apc = "chunk_check" /\ apc' # apc) => apc' \in {"done", "loop_top"}
                /\ (apc = "write" /\ apc' # apc) => apc' \in {"done", "chunk_check"}
                /\ (apc' = "play" => apc = "play")
           /\ (apc' = "write" /\ apc # "write") => apc \in {"fade_check", "fade_apply"}
           /\ (apc' = "fade_apply" /\ apc # "fade_apply") => apc = "fade_check"
           /\ (apc' = "fade_check" /\ apc # "fade_check") =>
                (apc = "chunk_check" /\ ~stop_flag)
           /\ (apc' = "play" /\ apc # "play") => (apc = "loop_top" /\ ~stop_flag) ]_vars

\* C8 witness: the session ended by stop() after exactly one chunk write
\* that began after the store, the stop check having come before it.
C8_Witness ==
    /\ a_hist.stop_called
    /\ a_hist.writes_after_stop = 1
    /\ a_hist.apc_at_stop = "fade_check"
    /\ a_hist.result = "stopped"
    /\ apc = "done"

(***************************************************************************)
(* WAV decoding: claims                                                    *)
(***************************************************************************)

\* The buffer of the call is the undamaged canonical header for these fmt
\* fields, followed by `extra` payload bytes.
IsCanonical(channels, rate, bits, data_len, extra) ==
    wav_data = canonical_header(channels, rate, bits, data_len) \o payload(extra)

Decoded == wav_pc # "parse"

\* C11 as stated: decoding the canonical 44-byte header yields exactly the
\* channel count, sample rate and bit depth stored in its fmt chunk and
\* data_offset 44, whatever the stored values are.
C11_CanonicalAlwaysDecodes ==
    \A channels \in WavChannels, rate \in WavRates, bits \in WavBits,
       data_len \in 0..MaxWavPayload, extra \in 0..MaxWavPayload :
        (Decoded /\ IsCanonical(channels, rate, bits, data_len, extra))
            => /\ wav_info.kind = "Some"
               /\ wav_info.channels = channels
               /\ wav_info.sample_rate = rate
               /\ wav_info.bits_per_sample = bits
               /\ wav_info.data_offset = 44

\* C11: decoding the canonical 44-byte header whose stored sample rate is
\* not zero yields exactly the stored channel count, sample rate and bit
\* depth, data_offset 44 and the stored data length; a stored sample rate of
\* zero is rejected.
C11_CanonicalDecodes ==
    \A channels \in WavChannels, rate \in WavRates, bits \in WavBits,
       data_len \in 0..MaxWavPayload, extra \in 0..MaxWavPayload :
        (Decoded /\ IsCanonical(channels, rate, bits, data_len, extra))
            => IF rate = 0
               THEN wav_info = WavNone
               ELSE wav_info = WavSome(channels, rate, bits, 44, data_len)

\* The header for channels=2, rate=44100, bits=16 has been decoded to
\* (2, 44100, 16) with data_offset 44.
C11_Witness ==
    /\ Decoded
    /\ IsCanonical(2, 44100, 16, 0, 0)
    /\ wav_info = WavSome(2, 44100, 16, 44, 0)

\* The buffer is one that the two first tests of parse_wav_header are about.
ShortOrBadMagic ==
    \/ Len(wav_data) < 44
    \/ Slice(wav_data, 0, 4) # RIFF
    \/ Slice(wav_data, 8, 12) # WAVE

\* C12: a buffer shorter than 44 bytes, or without "RIFF" at 0..4 or "WAVE"
\* at 8..12, is rejected without a panic, and play_wav_data returns the
\* error with the PCM device never opened.
C12_ShortOrBadMagicRejected ==
    (Decoded /\ ShortOrBadMagic)
        => /\ wav_info = WavNone
           /\ wav_pc = "returned"
           /\ wav_ret = "Err(Invalid WAV header)"
           /\ wav_dev = "unopened"

\* A buffer of full length with a damaged "WAVE" has been rejected.
C12_Witness ==
    /\ Decoded
    /\ Len(wav_data) >= 44
    /\ Slice(wav_data, 0, 4) = RIFF
    /\ Slice(wav_data, 8, 12) # WAVE
    /\ wav_ret = "Err(Invalid WAV header)"

\* C27: parse_wav_header returns a header or a rejection for every buffer;
\* it never indexes past the end of its input.
C27_ParseNeverPanics ==
    /\ wav_info.kind # "panic"
    /\ wav_ret # "panic"

(***************************************************************************)
(* Input reader: claims                                                    *)
(***************************************************************************)

\* clamp(v*s/32768, 0, s-1) over the unbounded integers, from the limbs of
\* the exact quotient.
ClampedQuotient(v, s) ==
    LET q == quotient_limbs(v, s)
    IN  IF v < 0 THEN 0
        ELSE IF q.hi > s \div 65536 \/ (q.hi = s \div 65536 /\ q.lo >= s % 65536)
        THEN s - 1
        ELSE q.hi * 65536 + q.lo

\* C13 as stated: after a poll that drained ABS_X / ABS_Y records, the
\* coordinate is clamp(v*s/32768, 0, s-1) for the last value v of the axis,
\* for any 32-bit v and any screen dimension s >= 1, and the pointer is on
\* the screen in every state.
C13_PointerScaledAndClamped ==
    /\ in_hist.abs_x.seen => mouse_x = ClampedQuotient(in_hist.abs_x.value, screen_width)
    /\ in_hist.abs_y.seen => mouse_y = ClampedQuotient(in_hist.abs_y.value, screen_height)
    /\ mouse_x \in 0..(screen_width - 1)
    /\ mouse_y \in 0..(screen_height - 1)

\* What the claim's table gives for a single byte.
SingleByteKey(b) ==
    IF b = 27 THEN EvKey("Escape")
    ELSE IF b \in {13, 10} THEN EvKey("Enter")
    ELSE IF b \in {127, 8} THEN EvKey("Backspace")
    ELSE IF b = 9 THEN EvKey("Tab")
    ELSE IF b \in 32..126 THEN EvChar(b)
    ELSE EvNone

ArrowOf == [b \in {65, 66, 67, 68} |->
               IF b = 65 THEN "Up" ELSE IF b = 66 THEN "Down"
               ELSE IF b = 67 THEN "Right" ELSE "Left"]

\* What the claim's table gives for a read of n bytes.
ExpectedKey(read) ==
    LET buf == read.bytes
        n == Len(buf)
    IN  IF read.kind = "Err" \/ n = 0 THEN EvNone
        ELSE IF n = 1 THEN SingleByteKey(buf[1])
        ELSE IF n = 2 THEN EvNone
        ELSE IF buf[1] # 27 \/ buf[2] # 91 THEN EvNone
        ELSE IF buf[3] \in DOMAIN ArrowOf THEN EvKey(ArrowOf[buf[3]])
        ELSE IF n >= 4 /\ buf[3] = 53 /\ buf[4] = 126 THEN EvKey("PageUp")
        ELSE IF n >= 4 /\ buf[3] = 54 /\ buf[4] = 126 THEN EvKey("PageDown")
        ELSE EvNone

\* C14: the event returned for one keyboard read of n bytes is the one the
\* decoding table gives: single control and printable bytes, ESC [ A/B/C/D
\* as arrows, ESC [ 5 ~ and ESC [ 6 ~ as page keys, and no event for every
\* other run (every 2-byte run included) and for a failed read.
C14_KeyboardDecoding ==
    in_hist.read.kind # "unread" => in_event = ExpectedKey(in_hist.read)

\* ESC [ 5 ~ has been decoded to PageUp.
C14_Witness ==
    /\ in_hist.read = ReadOk(<<27, 91, 53, 126>>)
    /\ in_event = EvKey("PageUp")

\* C15: when the records drained by a poll include a left-button press, the
\* poll returns the Mouse click with the pointer coordinates as they were
\* when the (last) press was decoded, never a MouseMove, and the motion
\* records of the poll still set the stored coordinates.
C15_ClickWinsOverMotion ==
    in_hist.pressed
        => /\ in_event = EvMouse(in_hist.at_press[1], in_hist.at_press[2])
           /\ in_hist.abs_x.seen
                  => mouse_x = scale_axis(in_hist.abs_x.value, screen_width)
           /\ in_hist.abs_y.seen
                  => mouse_y = scale_axis(in_hist.abs_y.value, screen_height)

\* A poll drained a press followed by motion: the click was returned with
\* the coordinates of the press while the stored pointer moved on.
C15_Witness ==
    /\ in_hist.pressed
    /\ in_hist.moved_after
    /\ in_event.kind = "Mouse"
    /\ <<mouse_x, mouse_y>> # in_hist.at_press

\* C26: a poll whose pointer records gave an event returns that event
\* without reading the tty, and the pending bytes are left as they were; a
\* poll that read the tty got the pending bytes from their start, those
\* an earlier poll left included; a read that failed, would block or gave
\* no byte makes the poll return the no-event value.
C26_PointerFirstKeyboardKept ==
    /\ []((in_hist.pressed \/ in_hist.moved) =>
              (in_hist.read = Unread /\ in_event.kind \in {"Mouse", "MouseMove"}))
    /\ [](in_event.kind \in {"Mouse", "MouseMove"} => in_hist.read = Unread)
    /\ []((in_hist.read.kind = "Err"
             \/ (in_hist.read.kind = "Ok" /\ in_hist.read.bytes = <<>>)) =>
              in_event = EvNone)
    /\ [][ /\ (in_event'.kind \in {"Mouse", "MouseMove"} /\ in_hist' # in_hist) =>
                tty_pending' = tty_pending
           /\ (Len(tty_pending') < Len(tty_pending)) =>
                /\ in_hist'.read.kind = "Ok"
                /\ tty_pending = in_hist'.read.bytes \o tty_pending'
           /\ (Len(tty_pending') > Len(tty_pending)) =>
                /\ SubSeq(tty_pending', 1, Len(tty_pending)) = tty_pending
                /\ in_event' = in_event ]_vars

\* C26 witness: a poll returned a click while an arrow key's bytes were
\* pending; they are still pending.
C26_Witness ==
    /\ in_event.kind = "Mouse"
    /\ in_hist.pressed
    /\ in_hist.read = Unread
    /\ tty_pending = <<27, 91, 65>>

(***************************************************************************)
(* Frame pacing and the process: claims                                    *)
(***************************************************************************)

\* C19: the frame that ends sleeps to the active period (1000/30 ms) when
\* fewer than 60 consecutive polls, its own included, returned no input, and
\* to the idle period (1000/10 ms) otherwise; a frame whose poll returned an
\* event sleeps to the active period; and the counter goes from at least 60
\* to below 60 only in a frame that polled an event.
C19_FramePacing ==
    [][ /\ (pc = "sleep" /\ pc' # "sleep")
            => /\ frame_period' =
                     (IF noinput_run < 60 THEN 1000 \div 30 ELSE 1000 \div 10)
               /\ event # "None" => frame_period' = 1000 \div 30
        /\ (idle_frames >= 60 /\ idle_frames' < 60)
            => (pc = "input" /\ event # "None") ]_vars

\* The last frame slept to the idle period and this frame's event has reset
\* the counter.
C19_Witness ==
    /\ pc = "update"
    /\ frame_period = 1000 \div 10
    /\ event # "None"
    /\ idle_frames = 0

Ended == pc \in {"returned", "killed", "exit(1): fb", "exit(1): input"}

\* C16 as stated: whenever the program has ended after raw mode was applied
\* (the original attributes were saved), the terminal has its original
\* attributes again.
C16_TerminalRestoredOnEveryEnd ==
    (Ended /\ saved_termios = "Some") => tty_attrs = "original"

C17_OpenFailureDisablesAudio ==
    pl_hist.open_failed => (pl_hist.spawns_after = 0 /\ pl_hist.opens_after = 0)

\* C20 as stated: when the file on storage has changed between two loop
\* iterations of the looping unit, the later iteration decodes the file's
\* new content.
C20_FileRereadEachIteration ==
    \A i \in 1..Len(units) : ~units[i].stale

(***************************************************************************)
(* PCM device: claims                                                      *)
(***************************************************************************)

\* The chunk writes of the current call, in order.
PcmWrites == SubSeq(pcm_ops, 4, Len(pcm_ops))

\* The current call of play_wav_data has returned Ok(false).
PlayCompleted ==
    /\ pcm_pc \in {"call", "ended"}
    /\ Len(pcm_ops) >= 3
    /\ \A i \in 4..Len(pcm_ops) : pcm_ops[i].ok

\* C21: the device operations of a call are, in order, the write-only open,
\* one hardware-parameters ioctl, one prepare ioctl, then only writes; a
\* failed open is the call's only operation and ends the unit; after a
\* failed ioctl the call goes on and, when there is payload, writes; a
\* failed write is the last operation of the unit, which makes no further
\* call of play_wav_data.
C21_DeviceProtocol ==
    /\ [](/\ Len(pcm_ops) >= 1 => pcm_ops[1].op = "open_wronly"
          /\ Len(pcm_ops) >= 2 => (pcm_ops[1].ok /\ pcm_ops[2].op = "hw_params")
          /\ Len(pcm_ops) >= 3 => pcm_ops[3].op = "prepare"
          /\ \A i \in 4..Len(pcm_ops) : pcm_ops[i].op = "write"
          /\ (Len(pcm_ops) >= 1 /\ ~pcm_ops[1].ok) =>
                (Len(pcm_ops) = 1 /\ pcm_pc = "ended")
          /\ \A i \in 4..Len(pcm_ops) :
                ~pcm_ops[i].ok => (i = Len(pcm_ops) /\ pcm_pc = "ended")
          /\ pcm_hist.ops_after_failure = 0
          /\ pcm_hist.plays_after_failure = 0)
    /\ [][ /\ (pcm_pc = "hw_params" /\ pcm_pc' # pcm_pc) => pcm_pc' = "prepare"
           /\ (pcm_pc = "prepare" /\ pcm_pc' # pcm_pc) => pcm_pc' = "while" ]_vars
    /\ ( ( /\ pcm_pc = "while"
           /\ Len(pcm_ops) = 3
           /\ (~pcm_ops[2].ok \/ ~pcm_ops[3].ok)
           /\ actual_len_of(pcm_info) > 0 )
         ~> (Len(pcm_ops) >= 4 /\ pcm_ops[4].op = "write") )

\* C21 witness: the music loop's call ended on the failure of its third
\* write, both ioctls having failed before its first.
C21_Witness ==
    /\ pcm_looping
    /\ pcm_pc = "ended"
    /\ Len(pcm_ops) = 6
    /\ ~pcm_ops[2].ok
    /\ ~pcm_ops[3].ok
    /\ pcm_ops[4].ok
    /\ pcm_ops[5].ok
    /\ ~pcm_ops[6].ok

\* C22: while no write fails, the writes of a call are consecutive ranges of
\* pcm_data starting at 0, each of max(rate*channels*(bits/8)/10, 4096)
\* bytes except the last, which is not empty and not longer; a call that
\* returned Ok(false) has written up to min(data_len, len - data_offset)
\* exactly; and the write loop is left.
C22_WritesCoverPayloadInChunks ==
    /\ [](LET W == PcmWrites
              tenth == (pcm_info.sample_rate * pcm_info.channels
                           * (pcm_info.bits_per_sample \div 8)) \div 10
              size == IF tenth > 4096 THEN tenth ELSE 4096
              total == IF pcm_info.data_len < pcm_info.pcm_len
                       THEN pcm_info.data_len ELSE pcm_info.pcm_len
          IN  /\ \A k \in 1..Len(W) :
                   /\ W[k].from = (IF k = 1 THEN 0 ELSE W[k - 1].to)
                   /\ W[k].from < W[k].to
                   /\ W[k].to <= total
                   /\ W[k].to - W[k].from <= size
                   /\ k < Len(W) => W[k].to - W[k].from = size
                   /\ W[k].to - W[k].from < size => W[k].to = total
              /\ PlayCompleted =>
                   (IF total = 0 THEN Len(W) = 0 ELSE W[Len(W)].to = total))
    /\ (pcm_pc = "while" ~> pcm_pc # "while")

\* C22 witness: a call that returned Ok(false) after three writes, the last
\* shorter than the first.
C22_Witness ==
    /\ PlayCompleted
    /\ Len(pcm_ops) = 6
    /\ pcm_ops[6].to = actual_len_of(pcm_info)
    /\ pcm_ops[6].to - pcm_ops[6].from < pcm_ops[4].to - pcm_ops[4].from

C28_ChunksAreWholeFrames ==
    LET frame == pcm_info.channels * (pcm_info.bits_per_sample \div 8)
        sample == pcm_info.bits_per_sample \div 8
    IN  \A i \in 4..Len(pcm_ops) :
          /\ pcm_ops[i].to < actual_len_of(pcm_info) =>
                (pcm_ops[i].to - pcm_ops[i].from) % frame = 0
          /\ pcm_ops[i].from % sample = 0

(***************************************************************************)
(* The shell's scenes: claims                                              *)
(***************************************************************************)

\* C29: every transition the shell's scenes return is None or Replace, the
\* stack holds exactly one scene in every state, and the loop never exits
\* through its empty-stack check.
C29_DepthAlwaysOne ==
    /\ sh_call.tr \in {"NotCalled", "None", "Replace"}
    /\ Len(sh_stack) = 1
    /\ sh_pc # "exited"

\* C29 witness: the wizard, finished, has replaced itself by the dashboard
\* and written the setup file.
C29_Witness ==
    /\ sh_call = ShellCall("update", "SetupWizard", "Replace")
    /\ sh_stack = <<Dashboard_new>>
    /\ sh_setup_file

====
